---- MODULE Spec2Model ----
(***************************************************************************)
(* A model of the tracing simulator: the Node element (bounded queue,      *)
(* egress rate, generation rate, optional filter, routing), the message    *)
(* (Rpc) it carries, the filter plugin seen from the node, and the         *)
(* tick-driven Simulator with its fixed-latency edges.                     *)
(*                                                                         *)
(* A message is a record [data, uid, headers]; headers is a function from  *)
(* the header keys that are present to their values, so contains_key is    *)
(* membership in its DOMAIN.  The ferried_data header, which no node       *)
(* operation reads, is left out of the node-level view of a message.       *)
(***************************************************************************)
EXTENDS Integers, Sequences, FiniteSets, TLC

(***************************************************************************)
(* Bounds of the model.                                                    *)
(***************************************************************************)
MaxCap == 2          \* node capacities are 1..MaxCap
MaxRate == 2         \* egress and generation rates are 0..MaxRate
MaxUid == 2          \* messages are created while COUNTER < MaxUid
MaxTicks == 2        \* a run of the node under test ticks at most this often
FirstTick == 10      \* the tick number of its first tick
MaxLatency == 2      \* edge latencies are 1..MaxLatency
MaxSimTicks == 5     \* the simulator's tick loop runs for ticks 0..MaxSimTicks-1

VARIABLES
    node,       \* the Node under test (src/libs/sim/node.rs, struct Node)
    COUNTER,    \* static mut COUNTER of Rpc::new
    rngTable,   \* the value StdRng::seed_from_u64(seed).gen_range(0, len) yields
    panicked,   \* the process has panicked (assert!, missing header, ...)
    now,        \* the tick number the next Node.tick is called with
    lastOp,     \* history: the last node operation, its input and its result
    routable,   \* history: the uids handed to recv that route_rpc could route
    accepted,   \* history: every RpcWithDst recv has enqueued, in order
    emitted,    \* history: every (Rpc, destination) tick has returned, in order
    simulator,  \* the Simulator: its nodes, its edges, their registration order
    simTick,    \* the tick number the next Simulator.tick is called with
    calls,      \* history: every element tick and recv the Simulator has made
    filters,    \* the Filter of each service, by workload name
    exec,       \* history: the last Filter::execute, its input and its result
    applied     \* history: the last call of a free function, its input and its result

nodeVars == <<node, now, lastOp, routable, accepted, emitted>>
simVars == <<simulator, simTick, calls>>
filterVars == <<filters, exec, applied>>
vars == <<node, COUNTER, rngTable, panicked, now, lastOp, routable, accepted, emitted,
          simulator, simTick, calls, filters, exec, applied>>

Min(a, b) == IF a < b THEN a ELSE b
Max(a, b) == IF a > b THEN a ELSE b
Range(f) == {f[i] : i \in DOMAIN f}

(***************************************************************************)
(* Identifiers.                                                            *)
(***************************************************************************)
RootId == "productpage-v1"                \* root_id of on_outgoing_responses
StorageId == "storage"
NodeId == RootId                          \* the id of the node under test
NeighborIds == {"reviews-v1", StorageId}  \* what add_connection may be given
Seeds == {0, 1}

(***************************************************************************)
(* Headers: IndexMap<String, String>.                                      *)
(***************************************************************************)
NoHeaders == << >>
contains_key(h, k) == k \in DOMAIN h
insert(h, k, v) == [x \in (DOMAIN h) \cup {k} |-> IF x = k THEN v ELSE h[x]]

(***************************************************************************)
(* tick.to_string(): the decimal digits of a u64.                          *)
(***************************************************************************)
Digit(d) ==
    CASE d = 0 -> "0" [] d = 1 -> "1" [] d = 2 -> "2" [] d = 3 -> "3"
      [] d = 4 -> "4" [] d = 5 -> "5" [] d = 6 -> "6" [] d = 7 -> "7"
      [] d = 8 -> "8" [] d = 9 -> "9"

RECURSIVE to_string(_)
to_string(n) == IF n < 10 THEN Digit(n) ELSE to_string(n \div 10) \o Digit(n % 10)

Rpc_new_no_increment(data, counter) ==
    [rpc |-> [data |-> data, uid |-> counter, headers |-> NoHeaders],
     counter |-> counter]

(***************************************************************************)
(* Rpc::new: the message gets the current COUNTER as uid; the caller       *)
(* stores counter + 1 back.                                                *)
(***************************************************************************)
Rpc_new(data, counter) ==
    [rpc |-> [data |-> data, uid |-> counter, headers |-> NoHeaders],
     counter |-> counter + 1]

Rpc_new_with_src(data, src, counter) ==
    LET r == Rpc_new(data, counter)
    IN  [r EXCEPT !.rpc.headers = insert(@, "src", src)]

Rpc_new_with_src_dest(data, src, dst, counter) ==
    LET r == Rpc_new(data, counter)
    IN  [r EXCEPT !.rpc.headers = insert(insert(@, "src", src), "dst", dst)]

(***************************************************************************)
(* The filter as the node sees it.  execute dispatches on the direction    *)
(* and location headers and panics when either is missing or has another   *)
(* value.  Three hooks return the message; on_outgoing_responses returns    *)
(* the message and, at the root service when the matcher finds the target  *)
(* pattern in the trace graph, a storage message.  The trace graph is not  *)
(* part of this view: the outcome of the matcher is the oracle orc.        *)
(***************************************************************************)
Oracle == {"nomatch", "match"}
StorageValue == "2"

FilterResult(out, counter, panic) == [out |-> out, counter |-> counter, panic |-> panic]

on_incoming_requests(x, counter) == FilterResult(<<x>>, counter, FALSE)

on_outgoing_requests(x, counter) == FilterResult(<<x>>, counter, FALSE)

on_incoming_responses(x, counter) == FilterResult(<<x>>, counter, FALSE)

on_outgoing_responses(whoami, x, counter, orc) ==
    IF orc = "match" /\ whoami = RootId
    THEN LET s == Rpc_new_with_src(StorageValue, whoami, counter)
             h1 == insert(s.rpc.headers, "dest", StorageId)
             h2 == insert(h1, "direction", "request")
             h3 == insert(h2, "src", whoami)
         IN  FilterResult(<<x, [s.rpc EXCEPT !.headers = h3]>>, s.counter, FALSE)
    ELSE FilterResult(<<x>>, counter, FALSE)

Filter_execute(whoami, x, counter, orc) ==
    IF ~contains_key(x.headers, "direction")
    THEN FilterResult(<< >>, counter, TRUE)
    ELSE IF x.headers["direction"] \notin {"request", "response"}
    THEN FilterResult(<< >>, counter, TRUE)
    ELSE IF ~contains_key(x.headers, "location")
    THEN FilterResult(<< >>, counter, TRUE)
    ELSE IF x.headers["direction"] = "request"
    THEN CASE x.headers["location"] = "ingress" -> on_incoming_requests(x, counter)
           [] x.headers["location"] = "egress" -> on_outgoing_requests(x, counter)
           [] OTHER -> FilterResult(<< >>, counter, TRUE)
    ELSE CASE x.headers["location"] = "ingress" -> on_incoming_responses(x, counter)
           [] x.headers["location"] = "egress" ->
                  on_outgoing_responses(whoami, x, counter, orc)
           [] OTHER -> FilterResult(<< >>, counter, TRUE)

(***************************************************************************)
(* The plugin wrapper of a node: recv buffers one message and asserts that *)
(* none is buffered; tick runs execute on the buffered message, clears the *)
(* buffer and returns what execute produced.  stored_rpc is a sequence of  *)
(* at most one message (Option<Rpc>).                                      *)
(***************************************************************************)
PluginWrapper_recv_overwrite(n, rpc) ==
    [node |-> [n EXCEPT !.stored_rpc = <<rpc>>], panic |-> FALSE]

PluginWrapper_recv(n, rpc) ==
    IF n.stored_rpc # << >>
    THEN [node |-> n, panic |-> TRUE]
    ELSE [node |-> [n EXCEPT !.stored_rpc = <<rpc>>], panic |-> FALSE]

PluginWrapper_tick(n, counter, orc) ==
    IF n.stored_rpc # << >>
    THEN LET r == Filter_execute(n.id, n.stored_rpc[1], counter, orc)
         IN  IF r.panic
             THEN [node |-> n, out |-> << >>, counter |-> counter,
                   panic |-> TRUE, execs |-> 1]
             ELSE [node |-> [n EXCEPT !.stored_rpc = << >>], out |-> r.out,
                   counter |-> r.counter, panic |-> FALSE, execs |-> 1]
    ELSE [node |-> n, out |-> << >>, counter |-> counter, panic |-> FALSE, execs |-> 0]

(***************************************************************************)
(* Node.                                                                   *)
(***************************************************************************)
gen_range_continued(seed, len) == (rngTable[seed][len] + COUNTER) % len

gen_range(seed, len) == rngTable[seed][len]

Node_new(id, capacity, egress_rate, generation_rate, plugin, seed) ==
    [queue |-> << >>, id |-> id, capacity |-> capacity, egress_rate |-> egress_rate,
     generation_rate |-> generation_rate, plugin |-> plugin, stored_rpc |-> << >>,
     neighbors |-> << >>, seed |-> seed]

add_connection(n, neighbor) == [n EXCEPT !.neighbors = Append(@, neighbor)]

enqueue(n, x) == [n EXCEPT !.queue = Append(@, x)]

dequeue_lifo(n) ==
    [node |-> [n EXCEPT !.queue = SubSeq(@, 1, Len(@) - 1)], item |-> n.queue[Len(n.queue)]]

dequeue(n) == [node |-> [n EXCEPT !.queue = Tail(@)], item |-> Head(n.queue)]

route_rpc_first_neighbor(n, rpc) ==
    IF Len(n.neighbors) > 0
    THEN << [rpc |-> rpc, destination |-> n.neighbors[1]] >>
    ELSE << >>

route_rpc_default_dest(n, rpc) ==
    IF contains_key(rpc.headers, "dest")
    THEN << [rpc |-> rpc, destination |-> rpc.headers["dest"]] >>
    ELSE IF Len(n.neighbors) > 0
    THEN LET which_neighbor == n.neighbors[gen_range(n.seed, Len(n.neighbors)) + 1]
         IN  << [rpc |-> [rpc EXCEPT !.headers = insert(@, "dest", which_neighbor)],
                 destination |-> which_neighbor] >>
    ELSE << >>

route_rpc(n, rpc) ==
    IF contains_key(rpc.headers, "dest")
    THEN LET dest == rpc.headers["dest"]
         IN  IF \E i \in 1..Len(n.neighbors) : n.neighbors[i] = dest
             THEN << [rpc |-> rpc, destination |-> dest] >>
             ELSE << >>
    ELSE IF Len(n.neighbors) > 0
    THEN LET idx == gen_range(n.seed, Len(n.neighbors))
             which_neighbor == n.neighbors[idx + 1]
         IN  << [rpc |-> [rpc EXCEPT !.headers = insert(@, "dest", which_neighbor)],
                 destination |-> which_neighbor] >>
    ELSE << >>

RECURSIVE route_all(_, _)
route_all(n, rpcs) ==
    IF rpcs = << >> THEN << >>
    ELSE route_rpc(n, Head(rpcs)) \o route_all(n, Tail(rpcs))

RECURSIVE enqueue_all(_, _)
enqueue_all(n, xs) ==
    IF xs = << >> THEN n ELSE enqueue_all(enqueue(n, Head(xs)), Tail(xs))

Node_recv_no_capacity_check(n, rpc, counter, orc) ==
    LET routed_rpc == route_rpc(n, rpc)
    IN  [node |-> enqueue_all(n, routed_rpc), counter |-> counter, panic |-> FALSE,
         execs |-> 0, added |-> routed_rpc]

RecvResult(n, counter, panic, execs, added) ==
    [node |-> n, counter |-> counter, panic |-> panic, execs |-> execs, added |-> added]

Node_recv(n, rpc, counter, orc) ==
    IF Len(n.queue) < n.capacity
    THEN IF ~n.plugin
         THEN LET routed_rpc == route_rpc(n, rpc)
              IN  RecvResult(enqueue_all(n, routed_rpc), counter, FALSE, 0, routed_rpc)
         ELSE LET p == PluginWrapper_recv(n, rpc)
              IN  IF p.panic THEN RecvResult(n, counter, TRUE, 0, << >>)
                  ELSE LET ret == PluginWrapper_tick(p.node, counter, orc)
                       IN  IF ret.panic
                           THEN RecvResult(ret.node, counter, TRUE, ret.execs, << >>)
                           ELSE LET routed_rpcs == route_all(ret.node, ret.out)
                                IN  RecvResult(enqueue_all(ret.node, routed_rpcs),
                                               ret.counter, FALSE, ret.execs, routed_rpcs)
    ELSE RecvResult(n, counter, FALSE, 0, << >>)

(***************************************************************************)
(* Node.tick.  st is the loop state: the node, ret (the vector returned),  *)
(* the uid counter, and the counts of dequeued and synthesized messages    *)
(* and of filter executions.  k iterations are left; orcs[k] is the        *)
(* matcher outcome of the filter call of that iteration.                   *)
(***************************************************************************)
with_dest_storage(rpcs) == [i \in 1..Len(rpcs) |->
                              [rpc |-> rpcs[i], destination |-> StorageId]]

with_dest(rpcs) == [i \in 1..Len(rpcs) |->
                      [rpc |-> rpcs[i], destination |-> rpcs[i].headers["dest"]]]

egress_filter_no_wrapper_tick(st, n, rpc, orc) ==
    LET p == PluginWrapper_recv(n, rpc)
    IN  IF p.panic THEN [st EXCEPT !.node = n, !.panic = TRUE]
        ELSE [st EXCEPT !.node = p.node, !.ret = @ \o with_dest(<<rpc>>)]

egress_filter(st, n, rpc, orc) ==
    LET p == PluginWrapper_recv(n, rpc)
    IN  IF p.panic THEN [st EXCEPT !.node = n, !.panic = TRUE]
        ELSE LET filtered_rpcs == PluginWrapper_tick(p.node, st.counter, orc)
             IN  IF filtered_rpcs.panic
                 THEN [st EXCEPT !.node = filtered_rpcs.node, !.panic = TRUE,
                                 !.execs = @ + filtered_rpcs.execs]
                 ELSE IF \E i \in 1..Len(filtered_rpcs.out) :
                            ~contains_key(filtered_rpcs.out[i].headers, "dest")
                 THEN [st EXCEPT !.node = filtered_rpcs.node, !.panic = TRUE,
                                 !.execs = @ + filtered_rpcs.execs]
                 ELSE [st EXCEPT !.node = filtered_rpcs.node,
                                 !.ret = @ \o with_dest(filtered_rpcs.out),
                                 !.counter = filtered_rpcs.counter,
                                 !.execs = @ + filtered_rpcs.execs]

tick_dequeue_peek(st, orc) ==
    LET deq == dequeue(st.node)
        rpc_dst == deq.item
        st1 == [st EXCEPT !.deq = @ + 1]
    IN  IF st.node.plugin
        THEN egress_filter(st1, st.node, rpc_dst.rpc, orc)
        ELSE [st1 EXCEPT !.ret = Append(@, rpc_dst)]

tick_dequeue(st, orc) ==
    LET deq == dequeue(st.node)
        rpc_dst == deq.item
        st1 == [st EXCEPT !.node = deq.node, !.deq = @ + 1]
    IN  IF st.node.plugin
        THEN egress_filter(st1, deq.node, rpc_dst.rpc, orc)
        ELSE [st1 EXCEPT !.ret = Append(@, rpc_dst)]

tick_generate_no_direction(st, tick, orc) ==
    LET fresh == Rpc_new(to_string(tick), st.counter)
        rpcs_dst == route_rpc(st.node, fresh.rpc)
        st1 == [st EXCEPT !.counter = fresh.counter]
    IN  IF rpcs_dst = << >> THEN st1
        ELSE IF st.node.plugin
        THEN egress_filter([st1 EXCEPT !.gen = @ + 1], st.node, rpcs_dst[1].rpc, orc)
        ELSE [st1 EXCEPT !.gen = @ + 1, !.ret = Append(@, rpcs_dst[1])]

tick_generate(st, tick, orc) ==
    LET fresh == Rpc_new(to_string(tick), st.counter)
        rpcs_dst == route_rpc(st.node, fresh.rpc)
        st1 == [st EXCEPT !.counter = fresh.counter]
    IN  IF rpcs_dst = << >> THEN st1
        ELSE LET rpc_dst == [rpcs_dst[1] EXCEPT
                                !.rpc.headers = insert(@, "direction", "request")]
                 st2 == [st1 EXCEPT !.gen = @ + 1]
             IN  IF st.node.plugin
                 THEN egress_filter(st2, st.node, rpc_dst.rpc, orc)
                 ELSE [st2 EXCEPT !.ret = Append(@, rpc_dst)]

RECURSIVE tick_loop(_, _, _, _)
tick_loop(st, tick, k, orcs) ==
    IF k = 0 \/ st.panic THEN st
    ELSE IF Len(st.node.queue) > 0
         THEN tick_loop(tick_dequeue(st, orcs[k]), tick, k - 1, orcs)
         ELSE tick_loop(tick_generate(st, tick, orcs[k]), tick, k - 1, orcs)

NewTickState(n, counter) ==
    [node |-> n, ret |-> << >>, counter |-> counter, panic |-> FALSE,
     deq |-> 0, gen |-> 0, execs |-> 0]

Node_tick_no_egress_limit(n, tick, counter, orcs) ==
    tick_loop(NewTickState(n, counter), tick,
              Min(Len(n.queue) + n.generation_rate, MaxRate), orcs)

Node_tick(n, tick, counter, orcs) ==
    tick_loop(NewTickState(n, counter), tick,
              Min(Len(n.queue) + n.generation_rate, n.egress_rate), orcs)

(***************************************************************************)
(* Edge: a fixed-latency link.  Its queue holds <message, destination,     *)
(* remaining ticks> entries.  recv appends the message with the full       *)
(* latency, addressed to the endpoint opposing the sender (to endpoint_b   *)
(* when the edge is unidirectional); tick decrements every entry and emits *)
(* the entries that reach zero, in queue order.                            *)
(***************************************************************************)
Edge_new(id, latency, endpoint_a, endpoint_b, unidirectional) ==
    [id |-> id, latency |-> latency, endpoint_a |-> endpoint_a,
     endpoint_b |-> endpoint_b, unidirectional |-> unidirectional, queue |-> << >>]

Edge_recv_swapped_endpoints(e, rpc, sender) ==
    LET dest == IF e.unidirectional \/ sender = e.endpoint_a
                THEN e.endpoint_a ELSE e.endpoint_b
    IN  [e EXCEPT !.queue = Append(@, [rpc |-> rpc, dest |-> dest,
                                       remaining |-> e.latency])]

Edge_recv(e, rpc, sender) ==
    LET dest == IF e.unidirectional \/ sender = e.endpoint_a
                THEN e.endpoint_b ELSE e.endpoint_a
    IN  [e EXCEPT !.queue = Append(@, [rpc |-> rpc, dest |-> dest,
                                       remaining |-> e.latency])]

Edge_emit(pending) ==
    LET due(x) == x.remaining = 0
        ready == SelectSeq(pending, due)
    IN  [i \in 1..Len(ready) |-> [rpc |-> ready[i].rpc, destination |-> ready[i].dest]]

Edge_keep(pending) ==
    LET waiting(x) == x.remaining # 0
    IN  SelectSeq(pending, waiting)

Edge_decrement(pending) ==
    [i \in 1..Len(pending) |-> [pending[i] EXCEPT !.remaining = @ - 1]]

Edge_tick_check_before_decrement(e) ==
    [edge |-> [e EXCEPT !.queue = Edge_decrement(Edge_keep(e.queue))],
     ret |-> Edge_emit(e.queue)]

Edge_tick(e) ==
    LET pending == Edge_decrement(e.queue)
    IN  [edge |-> [e EXCEPT !.queue = Edge_keep(pending)], ret |-> Edge_emit(pending)]

(***************************************************************************)
(* Simulator: owns the elements and ticks them in lock step.  nodes and    *)
(* edges map the registered ids to the elements, order is the order of     *)
(* registration.  add_edge registers the edge and makes it a neighbor of   *)
(* endpoint_a, and of endpoint_b unless the edge is unidirectional.        *)
(***************************************************************************)
Simulator_new == [nodes |-> << >>, edges |-> << >>, order |-> << >>]

Registered(sim) == (DOMAIN sim.nodes) \cup (DOMAIN sim.edges)

put(f, k, v) == [x \in (DOMAIN f) \cup {k} |-> IF x = k THEN v ELSE f[x]]

add_node(sim, id, capacity, egress_rate, generation_rate) ==
    [sim EXCEPT !.nodes = put(@, id, Node_new(id, capacity, egress_rate,
                                              generation_rate, FALSE, 1)),
                !.order = Append(@, id)]

add_edge(sim, latency, id, endpoint_a, endpoint_b, unidirectional) ==
    LET wired == [n \in DOMAIN sim.nodes |->
                    IF n = endpoint_a \/ (n = endpoint_b /\ ~unidirectional)
                    THEN add_connection(sim.nodes[n], id) ELSE sim.nodes[n]]
    IN  [sim EXCEPT !.nodes = wired,
                    !.edges = put(@, id, Edge_new(id, latency, endpoint_a, endpoint_b,
                                                  unidirectional)),
                    !.order = Append(@, id)]

(***************************************************************************)
(* Simulator.tick.  s is the state of one tick: the simulator, the uid     *)
(* counter, the transfer buffer of <message, destination, sender> entries  *)
(* and the log of the element calls made.                                  *)
(***************************************************************************)
NoOracles == [k \in 1..MaxRate |-> "nomatch"]

Msgs(xs, peers) == [i \in 1..Len(xs) |-> [uid |-> xs[i].rpc.uid, peer |-> peers[i]]]

TickCall(id, t, ret) ==
    [op |-> "tick", id |-> id, at |-> t, full |-> FALSE,
     msgs |-> Msgs(ret, [i \in 1..Len(ret) |-> ret[i].destination])]

\* full: the receiver is a node whose queue was full when recv was called
RecvCall(id, t, x, full) ==
    [op |-> "recv", id |-> id, at |-> t, full |-> full,
     msgs |-> Msgs(<<x>>, <<x.sender>>)]

IsFull(n) == Len(n.queue) >= n.capacity

Outgoing(id, ret) ==
    [i \in 1..Len(ret) |->
        [rpc |-> ret[i].rpc, destination |-> ret[i].destination, sender |-> id]]

node_ticked(s, id, t, st) ==
    [s EXCEPT !.sim.nodes[id] = st.node, !.counter = st.counter,
              !.panic = @ \/ st.panic,
              !.buffer = @ \o Outgoing(id, st.ret),
              !.log = Append(@, TickCall(id, t, st.ret))]

edge_ticked(s, id, t, r) ==
    [s EXCEPT !.sim.edges[id] = r.edge,
              !.buffer = @ \o Outgoing(id, r.ret),
              !.log = Append(@, TickCall(id, t, r.ret))]

element_tick(s, id, t) ==
    IF id \in DOMAIN s.sim.nodes
    THEN node_ticked(s, id, t, Node_tick(s.sim.nodes[id], t, s.counter, NoOracles))
    ELSE edge_ticked(s, id, t, Edge_tick(s.sim.edges[id]))

node_received(s, x, t, r) ==
    [s EXCEPT !.sim.nodes[x.destination] = r.node, !.counter = r.counter,
              !.panic = @ \/ r.panic,
              !.log = Append(@, RecvCall(x.destination, t, x,
                                         IsFull(s.sim.nodes[x.destination])))]

element_recv(s, x, t) ==
    IF x.destination \in DOMAIN s.sim.nodes
    THEN node_received(s, x, t, Node_recv(s.sim.nodes[x.destination], x.rpc,
                                         s.counter, "nomatch"))
    ELSE IF x.destination \in DOMAIN s.sim.edges
    THEN [s EXCEPT !.sim.edges[x.destination] = Edge_recv(@, x.rpc, x.sender),
                   !.log = Append(@, RecvCall(x.destination, t, x, FALSE))]
    ELSE s

RECURSIVE deliver(_, _, _)
deliver(s, buffer, t) ==
    IF buffer = << >> \/ s.panic THEN s
    ELSE deliver(element_recv(s, Head(buffer), t), Tail(buffer), t)

RECURSIVE collect(_, _, _)
collect(s, ids, t) ==
    IF ids = << >> \/ s.panic THEN s
    ELSE collect(element_tick(s, Head(ids), t), Tail(ids), t)

deliver_buffer(s, t) == deliver(s, s.buffer, t)

deliver_now(s, t) == [deliver_buffer(s, t) EXCEPT !.buffer = << >>]

RECURSIVE tick_interleaved(_, _, _)
tick_interleaved(s, ids, t) ==
    IF ids = << >> \/ s.panic THEN s
    ELSE tick_interleaved(deliver_now(element_tick(s, Head(ids), t), t), Tail(ids), t)

NewSimTickState(sim, counter) ==
    [sim |-> sim, counter |-> counter, panic |-> FALSE, buffer |-> << >>, log |-> << >>]

Simulator_tick_interleaved(sim, t, counter) ==
    tick_interleaved(NewSimTickState(sim, counter), sim.order, t)

Simulator_tick(sim, t, counter) ==
    deliver_buffer(collect(NewSimTickState(sim, counter), sim.order, t), t)

(***************************************************************************)
(* The filter in full (src/libs/filter_example/src/example_filter.rs).     *)
(*                                                                         *)
(* A trace graph is a petgraph Graph<(String, IndexMap<String, String>),   *)
(* ()>: nodes is the sequence of node weights [label, attrs] in insertion  *)
(* order (a NodeIndex is a position in it), edges the sequence of          *)
(* <<from, to>> index pairs in insertion order.  add_node and add_edge     *)
(* always append: petgraph keeps equal weights and parallel edges.         *)
(***************************************************************************)
Graph_new == [nodes |-> << >>, edges |-> << >>]

Graph_add_node(g, weight) == [g EXCEPT !.nodes = Append(@, weight)]

Graph_add_edge(g, a, b) == [g EXCEPT !.edges = Append(@, <<a, b>>)]

node_indices(g) == 1..Len(g.nodes)

\* graph_utils::get_node_with_id: the first node with the label; 0 is None
get_node_with_id(g, node_name) ==
    LET found == {i \in node_indices(g) : g.nodes[i].label = node_name}
    IN  IF found = {} THEN 0
        ELSE CHOOSE i \in found : \A j \in found : i <= j

\* neighbors_directed(node, Incoming).count() and the Outgoing neighbors,
\* one per edge
incoming_count(g, n) == Cardinality({k \in 1..Len(g.edges) : g.edges[k][2] = n})

outgoing_edges(g, n) == {k \in 1..Len(g.edges) : g.edges[k][1] = n}

(***************************************************************************)
(* FerriedData: the trace graph and the unassigned properties, a sequence  *)
(* of <<node label, key, value>> triples.  assign_properties installs each *)
(* triple whose label is in the graph on the node get_node_with_id finds   *)
(* and removes it; the others stay, in order.                              *)
(***************************************************************************)
FerriedData_default == [trace_graph |-> Graph_new, unassigned_properties |-> << >>]

install(g, triple) ==
    LET n == get_node_with_id(g, triple[1])
    IN  [g EXCEPT !.nodes[n].attrs = insert(@, triple[2], triple[3])]

RECURSIVE assign_from(_, _, _)
assign_from(g, todo, kept) ==
    IF todo = << >> THEN [trace_graph |-> g, unassigned_properties |-> kept]
    ELSE IF get_node_with_id(g, Head(todo)[1]) # 0
    THEN assign_from(install(g, Head(todo)), Tail(todo), kept)
    ELSE assign_from(g, Tail(todo), Append(kept, Head(todo)))

assign_properties(fd) == assign_from(fd.trace_graph, fd.unassigned_properties, << >>)

(***************************************************************************)
(* sort_unstable and dedup on the unassigned properties: the triples in    *)
(* the order of the strings, each once.  TripleOrder lists the triples the *)
(* filter can be handed in that order.                                     *)
(***************************************************************************)
LabelOrder == <<"productpage-v1", "ratings-v1", "reviews-v1">>
ValueOrder == <<"0", "7">>
TripleOrder ==
    [i \in 1..(Len(LabelOrder) * Len(ValueOrder)) |->
        <<LabelOrder[((i - 1) \div Len(ValueOrder)) + 1], "request.total_size",
          ValueOrder[((i - 1) % Len(ValueOrder)) + 1]>>]

sort_dedup(triples) == SelectSeq(TripleOrder, LAMBDA t : t \in Range(triples))

(***************************************************************************)
(* serde_json::to_string and from_str on FerriedData.  A header value that *)
(* is not the encoding of a FerriedData does not decode.                   *)
(***************************************************************************)
Undecodable == [json |-> "garbage"]

serde_json_to_string(fd) == [json |-> "FerriedData", value |-> fd]

serde_json_from_str(s) ==
    IF s.json = "FerriedData" THEN [ok |-> TRUE, value |-> s.value]
    ELSE [ok |-> FALSE]

put_ferried_data_in_hdrs(fd, hdr) == insert(hdr, "ferried_data", serde_json_to_string(fd))

(***************************************************************************)
(* Filter: whoami and target_graph are Options (a sequence of length at    *)
(* most one), envoy_shared_data maps uid.to_string() to an encoded         *)
(* FerriedData.                                                            *)
(***************************************************************************)
WorkloadKey == "node.metadata.WORKLOAD_NAME"

create_target_graph ==
    [nodes |-> <<[label |-> "a", attrs |-> NoHeaders], [label |-> "b", attrs |-> NoHeaders],
                 [label |-> "c", attrs |-> NoHeaders]>>,
     edges |-> <<<<1, 2>>, <<2, 3>>>>]

Filter_new_with_envoy_properties(string_data) ==
    [whoami |-> << >>, target_graph |-> << >>, filter_state |-> string_data,
     envoy_shared_data |-> NoHeaders]

Filter_new ==
    [whoami |-> << >>, target_graph |-> << >>, filter_state |-> NoHeaders,
     envoy_shared_data |-> NoHeaders]

set_whoami_short_key(f) ==
    IF ~contains_key(f.filter_state, "WORKLOAD_NAME") THEN f
    ELSE [f EXCEPT !.whoami = <<f.filter_state["WORKLOAD_NAME"]>>]

set_whoami(f) ==
    IF ~contains_key(f.filter_state, WorkloadKey) THEN f
    ELSE [f EXCEPT !.whoami = <<f.filter_state[WorkloadKey]>>]

\* the filter, and whether assert!(self.whoami.is_some()) failed
init_filter(f) ==
    LET f1 == IF f.whoami = << >> THEN set_whoami(f) ELSE f
        f2 == IF f1.target_graph = << >>
              THEN [f1 EXCEPT !.target_graph = <<create_target_graph>>] ELSE f1
    IN  [filter |-> IF f1.whoami = << >> THEN f1 ELSE f2, panic |-> f1.whoami = << >>]

RECURSIVE add_nodes(_, _, _)
add_nodes(stored, data, i) ==
    IF i > Len(data.nodes) THEN stored
    ELSE add_nodes(Graph_add_node(stored, data.nodes[i]), data, i + 1)

RECURSIVE add_edges(_, _, _)
add_edges(stored, data, k) ==
    IF k > Len(data.edges) THEN stored
    ELSE LET edge0_weight == data.nodes[data.edges[k][1]].label
             edge1_weight == data.nodes[data.edges[k][2]].label
         IN  add_edges(Graph_add_edge(stored, get_node_with_id(stored, edge0_weight),
                                      get_node_with_id(stored, edge1_weight)),
                       data, k + 1)

merge_into(stored_data, data) ==
    assign_properties(
        [trace_graph |-> add_edges(add_nodes(stored_data.trace_graph, data.trace_graph, 1),
                                   data.trace_graph, 1),
         unassigned_properties |->
             sort_dedup(stored_data.unassigned_properties \o data.unassigned_properties)])

store_headers_no_merge_on_first(f, uid_64, headers) ==
    IF ~contains_key(headers, "ferried_data") THEN f
    ELSE LET uid == to_string(uid_64)
         IN  IF ~contains_key(f.envoy_shared_data, uid)
             THEN [f EXCEPT !.envoy_shared_data = insert(@, uid, headers["ferried_data"])]
             ELSE LET data == serde_json_from_str(headers["ferried_data"])
                      stored_data == serde_json_from_str(f.envoy_shared_data[uid])
                  IN  IF ~data.ok \/ ~stored_data.ok THEN f
                      ELSE [f EXCEPT !.envoy_shared_data =
                               insert(@, uid, serde_json_to_string(
                                   merge_into(stored_data.value, data.value)))]

store_headers(f, uid_64, headers) ==
    IF ~contains_key(headers, "ferried_data") THEN f
    ELSE LET uid == to_string(uid_64)
             f1 == IF ~contains_key(f.envoy_shared_data, uid)
                   THEN [f EXCEPT !.envoy_shared_data =
                            insert(@, uid, headers["ferried_data"])]
                   ELSE f
             data == serde_json_from_str(headers["ferried_data"])
             stored_data == serde_json_from_str(f1.envoy_shared_data[uid])
         IN  IF ~data.ok \/ ~stored_data.ok THEN f1
             ELSE [f1 EXCEPT !.envoy_shared_data =
                      insert(@, uid, serde_json_to_string(
                          merge_into(stored_data.value, data.value)))]

RECURSIVE add_root_edges(_, _, _, _)
add_root_edges(g, me, previous_roots, n) ==
    IF n > Len(g.nodes) THEN g
    ELSE add_root_edges(IF n \in previous_roots THEN Graph_add_edge(g, me, n) ELSE g,
                        me, previous_roots, n + 1)

add_me_as_root_no_assign(data, whoami, my_indexmap) ==
    LET g == data.trace_graph
        previous_roots == {n \in node_indices(g) : incoming_count(g, n) = 0}
        me == Len(g.nodes) + 1
        with_me == Graph_add_node(g, [label |-> whoami, attrs |-> my_indexmap])
    IN  [data EXCEPT !.trace_graph = add_root_edges(with_me, me, previous_roots, 1)]

add_me_as_root(data, whoami, my_indexmap) ==
    LET g == data.trace_graph
        previous_roots == {n \in node_indices(g) : incoming_count(g, n) = 0}
        me == Len(g.nodes) + 1
        with_me == Graph_add_node(g, [label |-> whoami, attrs |-> my_indexmap])
    IN  assign_properties([data EXCEPT !.trace_graph =
                              add_root_edges(with_me, me, previous_roots, 1)])

merge_headers(f, uid, new_rpc_headers) ==
    LET uid_str == to_string(uid)
        whoami == f.whoami[1]
        my_indexmap == insert(NoHeaders, WorkloadKey, whoami)
    IN  IF contains_key(f.envoy_shared_data, uid_str)
        THEN LET d == serde_json_from_str(f.envoy_shared_data[uid_str])
             IN  IF d.ok /\ new_rpc_headers["direction"] = "response"
                 THEN put_ferried_data_in_hdrs(add_me_as_root(d.value, whoami, my_indexmap),
                                               new_rpc_headers)
                 ELSE new_rpc_headers
        ELSE put_ferried_data_in_hdrs(
                 [FerriedData_default EXCEPT !.trace_graph =
                     Graph_add_node(@, [label |-> whoami, attrs |-> my_indexmap])],
                 new_rpc_headers)

(***************************************************************************)
(* The user-defined reduction.  leaf_height is 0; mid_height is one more   *)
(* than the largest child response that parses as a u32.  Reading the      *)
(* height of a child that has none, or looking up a node that is not in    *)
(* the graph, panics.                                                      *)
(***************************************************************************)
ParseRange == 0..99

parse_u32(s) ==
    IF \E n \in ParseRange : to_string(n) = s
    THEN CHOOSE n \in ParseRange : to_string(n) = s
    ELSE -1

leaf_height == 0

mid_height(children_responses) ==
    LET parsed == {parse_u32(r) : r \in children_responses} \ {-1}
        max == IF parsed = {} THEN 0
               ELSE CHOOSE m \in parsed : \A n \in parsed : n <= m
    IN  max + 1

execute_udfs_and_check_trace_lvl_prop(f, fd) ==
    LET g == fd.trace_graph
        node_idx == get_node_with_id(g, f.whoami[1])
        children == {g.edges[k][2] : k \in outgoing_edges(g, node_idx)}
    IN  IF node_idx = 0 \/ \E c \in children : ~contains_key(g.nodes[c].attrs, "height")
        THEN [fd |-> fd, sat |-> FALSE, panic |-> TRUE]
        ELSE LET my_height_value ==
                     IF children = {} THEN to_string(leaf_height)
                     ELSE to_string(mid_height({g.nodes[c].attrs["height"] : c \in children}))
             IN  [fd |-> [fd EXCEPT !.trace_graph.nodes[node_idx].attrs =
                                       insert(@, "height", my_height_value)],
                  sat |-> TRUE, panic |-> FALSE]

(***************************************************************************)
(* The matcher: none on an empty trace graph and whenever the target graph *)
(* is not contained in the trace graph, which orc decides; a mapping sends *)
(* the pattern root to the trace root.  A mapping is a sequence of         *)
(* <<pattern node, trace node>> pairs; an Option is a sequence of length   *)
(* at most one.                                                            *)
(***************************************************************************)
trace_root(g) == CHOOSE n \in node_indices(g) :
                    /\ incoming_count(g, n) = 0
                    /\ \A m \in node_indices(g) : incoming_count(g, m) = 0 => n <= m

find_mapping_shamir_centralized(trace_graph, target_graph, orc) ==
    IF orc # "match" \/ trace_graph.nodes = << >>
       \/ \A n \in node_indices(trace_graph) : incoming_count(trace_graph, n) # 0
    THEN << >>
    ELSE <<<<<<get_node_with_id(target_graph, "a"), trace_root(trace_graph)>>>>>>

get_value_for_storage_first_pair(target_graph, mapping, fd) ==
    LET node_ptr == get_node_with_id(target_graph, "a")
        trace_node_index == IF mapping = << >> THEN 0 ELSE mapping[1][2]
    IN  IF node_ptr = 0 THEN << >>
        ELSE IF trace_node_index = 0 THEN << >>
        ELSE IF ~contains_key(fd.trace_graph.nodes[trace_node_index].attrs, "height")
        THEN << >>
        ELSE <<fd.trace_graph.nodes[trace_node_index].attrs["height"]>>

get_value_for_storage(target_graph, mapping, fd) ==
    LET node_ptr == get_node_with_id(target_graph, "a")
        maps == {i \in 1..Len(mapping) : target_graph.nodes[mapping[i][1]].label = "a"}
        trace_node_index == IF maps = {} THEN 0
                            ELSE mapping[CHOOSE i \in maps : \A j \in maps : i <= j][2]
    IN  IF node_ptr = 0 THEN << >>
        ELSE IF trace_node_index = 0 THEN << >>
        ELSE IF ~contains_key(fd.trace_graph.nodes[trace_node_index].attrs, "height")
        THEN << >>
        ELSE <<fd.trace_graph.nodes[trace_node_index].attrs["height"]>>

\* whether one of the node_weight(..).unwrap() calls of get_value_for_storage
\* fails: a pair read by the loop names no pattern node, or the trace node
\* found is not in the trace graph
get_value_for_storage_panic(target_graph, mapping, fd) ==
    LET in_target(i) == mapping[i][1] \in node_indices(target_graph)
        is_a(i) == in_target(i) /\ target_graph.nodes[mapping[i][1]].label = "a"
        maps == {i \in 1..Len(mapping) : is_a(i)}
        read == IF maps = {} THEN 1..Len(mapping)
                ELSE 1..(CHOOSE i \in maps : \A j \in maps : i <= j)
    IN  /\ get_node_with_id(target_graph, "a") # 0
        /\ \/ \E i \in read : ~in_target(i)
           \/ /\ maps # {}
              /\ mapping[CHOOSE i \in maps : \A j \in maps : i <= j][2]
                     \notin node_indices(fd.trace_graph)

(***************************************************************************)
(* The four hooks and execute.  A result is the filter afterwards, the     *)
(* messages returned, COUNTER afterwards, whether the call panicked, and   *)
(* the hook that ran.                                                      *)
(***************************************************************************)
HookResult(f, out, counter, panic, hook) ==
    [filter |-> f, out |-> out, counter |-> counter, panic |-> panic, hook |-> hook]

collect_envoy_properties(f, fd) == fd

Filter_on_incoming_requests(f, x, counter) ==
    IF ~contains_key(x.headers, "ferried_data")
    THEN LET x1 == [x EXCEPT !.headers = put_ferried_data_in_hdrs(
                        collect_envoy_properties(f, FerriedData_default), @)]
         IN  HookResult(store_headers(f, x1.uid, x1.headers), <<x1>>, counter, FALSE,
                        "on_incoming_requests")
    ELSE LET fd == serde_json_from_str(x.headers["ferried_data"])
         IN  IF ~fd.ok THEN HookResult(f, <<x>>, counter, FALSE, "on_incoming_requests")
             ELSE LET x1 == [x EXCEPT !.headers = put_ferried_data_in_hdrs(
                                 collect_envoy_properties(f, fd.value), @)]
                  IN  HookResult(store_headers(f, x1.uid, x1.headers), <<x1>>, counter,
                                 FALSE, "on_incoming_requests")

Filter_on_outgoing_requests_storing(f, x, counter) ==
    HookResult(store_headers(f, x.uid, merge_headers(f, x.uid, x.headers)),
               <<[x EXCEPT !.headers = merge_headers(f, x.uid, @)]>>, counter, FALSE,
               "on_outgoing_requests")

Filter_on_outgoing_requests(f, x, counter) ==
    HookResult(f, <<[x EXCEPT !.headers = merge_headers(f, x.uid, @)]>>, counter, FALSE,
               "on_outgoing_requests")

Filter_on_incoming_responses(f, x, counter) ==
    HookResult(store_headers(f, x.uid, x.headers), <<x>>, counter, FALSE,
               "on_incoming_responses")

storage_rpc_of(value, whoami, counter) ==
    LET s == Rpc_new_with_src(value, whoami, counter)
        h1 == insert(s.rpc.headers, "dest", "storage")
        h2 == insert(h1, "direction", "request")
        h3 == insert(h2, "src", whoami)
    IN  [rpc |-> [s.rpc EXCEPT !.headers = h3], counter |-> s.counter]

respond(f, original_rpc, ferried_data, counter, orc) ==
    LET root_id == "productpage-v1"
        udf == execute_udfs_and_check_trace_lvl_prop(f, ferried_data)
        with_fd == [original_rpc EXCEPT !.headers = put_ferried_data_in_hdrs(udf.fd, @)]
        mapping == find_mapping_shamir_centralized(udf.fd.trace_graph, f.target_graph[1], orc)
    IN  IF udf.panic
        THEN HookResult(f, << >>, counter, TRUE, "on_outgoing_responses")
        ELSE IF udf.sat /\ f.whoami[1] = root_id /\ mapping # << >>
        THEN LET value == get_value_for_storage(f.target_graph[1], mapping[1], udf.fd)
             IN  IF value = << >>
                 THEN HookResult(f, <<with_fd>>, counter, FALSE, "on_outgoing_responses")
                 ELSE LET s == storage_rpc_of(value[1], f.whoami[1], counter)
                      IN  HookResult(f, <<with_fd, s.rpc>>, s.counter, FALSE,
                                     "on_outgoing_responses")
        ELSE HookResult(f, <<with_fd>>, counter, FALSE, "on_outgoing_responses")

Filter_on_outgoing_responses_default_on_error(f, x, counter, orc) ==
    LET original_rpc == [x EXCEPT !.headers = merge_headers(f, x.uid, @)]
    IN  IF ~contains_key(original_rpc.headers, "ferried_data")
        THEN respond(f, original_rpc, FerriedData_default, counter, orc)
        ELSE LET fd == serde_json_from_str(original_rpc.headers["ferried_data"])
             IN  IF ~fd.ok
                 THEN respond(f, original_rpc, FerriedData_default, counter, orc)
                 ELSE respond(f, original_rpc, fd.value, counter, orc)

Filter_on_outgoing_responses(f, x, counter, orc) ==
    LET original_rpc == [x EXCEPT !.headers = merge_headers(f, x.uid, @)]
    IN  IF ~contains_key(original_rpc.headers, "ferried_data")
        THEN respond(f, original_rpc, FerriedData_default, counter, orc)
        ELSE LET fd == serde_json_from_str(original_rpc.headers["ferried_data"])
             IN  IF ~fd.ok
                 THEN HookResult(f, <<original_rpc>>, counter, FALSE,
                                 "on_outgoing_responses")
                 ELSE respond(f, original_rpc, fd.value, counter, orc)

Panicked(f, counter) == HookResult(f, << >>, counter, TRUE, "none")

execute_swapped_location(f0, x, counter, orc) ==
    LET i == init_filter(f0)
        f == i.filter
    IN  IF i.panic \/ ~contains_key(x.headers, "direction") THEN Panicked(f, counter)
        ELSE IF x.headers["direction"] \notin {"request", "response"}
        THEN Panicked(f, counter)
        ELSE IF ~contains_key(x.headers, "location") THEN Panicked(f, counter)
        ELSE IF x.headers["direction"] = "request"
        THEN CASE x.headers["location"] = "egress" ->
                      Filter_on_incoming_requests(f, x, counter)
               [] x.headers["location"] = "ingress" ->
                      Filter_on_outgoing_requests(f, x, counter)
               [] OTHER -> Panicked(f, counter)
        ELSE CASE x.headers["location"] = "ingress" ->
                      Filter_on_incoming_responses(f, x, counter)
               [] x.headers["location"] = "egress" ->
                      Filter_on_outgoing_responses(f, x, counter, orc)
               [] OTHER -> Panicked(f, counter)

execute(f0, x, counter, orc) ==
    LET i == init_filter(f0)
        f == i.filter
    IN  IF i.panic \/ ~contains_key(x.headers, "direction") THEN Panicked(f, counter)
        ELSE IF x.headers["direction"] \notin {"request", "response"}
        THEN Panicked(f, counter)
        ELSE IF ~contains_key(x.headers, "location") THEN Panicked(f, counter)
        ELSE IF x.headers["direction"] = "request"
        THEN CASE x.headers["location"] = "ingress" ->
                      Filter_on_incoming_requests(f, x, counter)
               [] x.headers["location"] = "egress" ->
                      Filter_on_outgoing_requests(f, x, counter)
               [] OTHER -> Panicked(f, counter)
        ELSE CASE x.headers["location"] = "ingress" ->
                      Filter_on_incoming_responses(f, x, counter)
               [] x.headers["location"] = "egress" ->
                      Filter_on_outgoing_responses(f, x, counter, orc)
               [] OTHER -> Panicked(f, counter)

(***************************************************************************)
(* No filter is under test.                                                *)
(***************************************************************************)
NoExec == [n |-> 0, whoami |-> "", x |-> << >>, orc |-> "nomatch", pre |-> << >>,
           out |-> << >>, panic |-> FALSE, hook |-> "none"]

NoApplied == [fn |-> "none", in |-> << >>, out |-> << >>, panic |-> FALSE]
NoFilters == filters = << >> /\ exec = NoExec /\ applied = NoApplied

(***************************************************************************)
(* The node under test: any configuration Node::new accepts (capacity at   *)
(* least 1), any sequence of add_connection, recv and tick.                *)
(***************************************************************************)
MaxNeighbors == Cardinality(NeighborIds)

RngTables ==
    {t \in [Seeds -> [1..MaxNeighbors -> 0..(MaxNeighbors - 1)]] :
        \A s \in Seeds : \A len \in 1..MaxNeighbors : t[s][len] < len}

NoOp == [kind |-> "new", pre |-> << >>, in |-> << >>, tick |-> 0, out |-> << >>,
         panic |-> FALSE, execs |-> 0, gen |-> 0, deq |-> 0, added |-> << >>]

DestHeaders == {NoHeaders} \cup {[dest |-> d] : d \in {"reviews-v1", NodeId}}

merge(h1, h2) == [k \in (DOMAIN h1) \cup (DOMAIN h2) |->
                    IF k \in DOMAIN h1 THEN h1[k] ELSE h2[k]]

\* what recv is handed: a node without a filter reads the dest header only;
\* a filter reads direction and location as well
InHeaders(n) ==
    IF ~n.plugin THEN DestHeaders
    ELSE {NoHeaders, [direction |-> "response", location |-> "egress"]}
         \cup {merge(d, [direction |-> "request", location |-> "ingress"]) :
                   d \in DestHeaders}

Init ==
    /\ \E c \in 1..MaxCap, e \in 0..MaxRate, g \in 0..MaxRate, p \in BOOLEAN :
           node = Node_new(NodeId, c, e, g, p, 1)
    /\ COUNTER = 0
    /\ rngTable \in {t \in RngTables : t[0] = [len \in 1..MaxNeighbors |-> 0]}
    /\ panicked = FALSE
    /\ now = FirstTick
    /\ lastOp = NoOp
    /\ routable = << >>
    /\ accepted = << >>
    /\ emitted = << >>
    /\ simulator = Simulator_new
    /\ simTick = 0
    /\ calls = << >>
    /\ NoFilters

OraclesOf(n) == IF n.plugin THEN Oracle ELSE {"nomatch"}

AddConnection ==
    /\ lastOp.kind \in {"new", "add_connection"}
    /\ Len(node.neighbors) < MaxNeighbors
    /\ \E nb \in NeighborIds :
           /\ \A i \in 1..Len(node.neighbors) : node.neighbors[i] # nb
           /\ node' = add_connection(node, nb)
           /\ lastOp' = [NoOp EXCEPT !.kind = "add_connection", !.pre = node.queue]
    /\ UNCHANGED <<COUNTER, rngTable, panicked, now, routable, accepted, emitted>>
    /\ UNCHANGED simVars
    /\ UNCHANGED filterVars

Recv ==
    /\ ~panicked
    /\ COUNTER < MaxUid
    /\ \E h \in InHeaders(node), orc \in OraclesOf(node) :
           LET rpc == [data |-> "0", uid |-> COUNTER, headers |-> h]
               r == Node_recv(node, rpc, COUNTER + 1, orc)
           IN  /\ node' = r.node
               /\ COUNTER' = r.counter
               /\ panicked' = r.panic
               /\ accepted' = accepted \o r.added
               /\ routable' = IF route_rpc(node, rpc) # << >>
                               THEN Append(routable, rpc.uid) ELSE routable
               /\ lastOp' = [NoOp EXCEPT !.kind = "recv", !.pre = node.queue,
                                         !.in = <<rpc>>, !.panic = r.panic,
                                         !.execs = r.execs, !.added = r.added]
    /\ UNCHANGED <<rngTable, now, emitted>>
    /\ UNCHANGED simVars
    /\ UNCHANGED filterVars

WillGenerate(n) == Min(Len(n.queue) + n.generation_rate, n.egress_rate) > Len(n.queue)

Tick ==
    /\ ~panicked
    /\ now < FirstTick + MaxTicks
    /\ WillGenerate(node) => COUNTER < MaxUid
    /\ \E orcs \in [1..MaxRate -> OraclesOf(node)] :
           LET t == now
               st == Node_tick(node, t, COUNTER, orcs)
           IN  /\ node' = st.node
               /\ now' = now + 1
               /\ COUNTER' = st.counter
               /\ panicked' = st.panic
               /\ emitted' = emitted \o st.ret
               /\ lastOp' = [NoOp EXCEPT !.kind = "tick", !.pre = node.queue,
                                         !.tick = t, !.out = st.ret,
                                         !.panic = st.panic, !.execs = st.execs,
                                         !.gen = st.gen, !.deq = st.deq]
    /\ UNCHANGED <<rngTable, routable, accepted>>
    /\ UNCHANGED simVars
    /\ UNCHANGED filterVars

Next == AddConnection \/ Recv \/ Tick

Spec == Init /\ [][Next]_vars

(***************************************************************************)
(* The simulation of main: nodes and edges are added in any order that     *)
(* adds an edge after its endpoints, then the tick loop runs.  The         *)
(* topology is the head of main's: the traffic generator, two nodes, the   *)
(* edge from the generator to node 1 and the edge between the two nodes.   *)
(***************************************************************************)
TgenId == "traffic generator"
SimNodeIds == {TgenId, "node 1", "node 2"}

SimEdges ==
    {[id |-> "tgen->node1", endpoint_a |-> TgenId, endpoint_b |-> "node 1"],
     [id |-> "1->2", endpoint_a |-> "node 1", endpoint_b |-> "node 2"]}

SimElementIds == SimNodeIds \cup {e.id : e \in SimEdges}

NodeRates(id) ==
    IF id = TgenId THEN {<<r, r>> : r \in 1..MaxRate}
    ELSE IF id = "node 1" THEN (1..MaxRate) \X {0, 1}
    ELSE {<<1, 0>>}

SimInit ==
    /\ node = Node_new(NodeId, 1, 0, 0, FALSE, 1)
    /\ COUNTER = 0
    /\ rngTable \in {t \in RngTables :
                        \A s \in Seeds : \A len \in 1..MaxNeighbors :
                            (s # 1 \/ len # 2) => t[s][len] = 0}
    /\ panicked = FALSE
    /\ now = FirstTick
    /\ lastOp = NoOp
    /\ routable = << >>
    /\ accepted = << >>
    /\ emitted = << >>
    /\ simulator = Simulator_new
    /\ simTick = 0
    /\ calls = << >>
    /\ NoFilters

SimAddNode ==
    /\ simTick = 0
    /\ \E id \in SimNodeIds \ Registered(simulator) : \E r \in NodeRates(id) :
           simulator' = add_node(simulator, id, MaxCap, r[1], r[2])
    /\ UNCHANGED <<COUNTER, rngTable, panicked, simTick, calls>>
    /\ UNCHANGED nodeVars
    /\ UNCHANGED filterVars

SimAddEdge ==
    /\ simTick = 0
    /\ \E e \in SimEdges, latency \in 1..MaxLatency, unidirectional \in BOOLEAN :
           /\ e.id \notin Registered(simulator)
           /\ {e.endpoint_a, e.endpoint_b} \subseteq DOMAIN simulator.nodes
           /\ simulator' = add_edge(simulator, latency, e.id, e.endpoint_a,
                                    e.endpoint_b, unidirectional)
    /\ UNCHANGED <<COUNTER, rngTable, panicked, simTick, calls>>
    /\ UNCHANGED nodeVars
    /\ UNCHANGED filterVars

SimTick ==
    /\ ~panicked
    /\ Registered(simulator) = SimElementIds
    /\ simTick < MaxSimTicks
    /\ \E s \in {Simulator_tick(simulator, simTick, COUNTER)} :
           /\ simulator' = s.sim
           /\ COUNTER' = s.counter
           /\ panicked' = s.panic
           /\ calls' = calls \o s.log
    /\ simTick' = simTick + 1
    /\ UNCHANGED rngTable
    /\ UNCHANGED nodeVars
    /\ UNCHANGED filterVars

SimNext == SimAddNode \/ SimAddEdge \/ SimTick

SimSpec == SimInit /\ [][SimNext]_vars

(***************************************************************************)
(* Undeliverable messages.  The generator and node 1 joined by one edge;   *)
(* in a tick the transfer buffer may also hold the storage message the     *)
(* filter of the root service emits (dest "storage"), handed over by the   *)
(* generator, while no element is registered under that id.                *)
(***************************************************************************)
storage_rpc(whoami, counter) ==
    on_outgoing_responses(whoami, Rpc_new("0", counter).rpc, counter, "match").out[2]

with_storage(s, id, t) ==
    LET x == [rpc |-> storage_rpc(RootId, s.counter), destination |-> StorageId]
    IN  [s EXCEPT !.counter = @ + 1,
                  !.buffer = @ \o Outgoing(id, <<x>>),
                  !.log = Append(@, TickCall(id, t, <<x>>))]

Simulator_tick_with_storage(sim, t, counter) ==
    deliver_buffer(with_storage(collect(NewSimTickState(sim, counter), sim.order, t),
                                TgenId, t), t)

DropInit ==
    /\ node = Node_new(NodeId, 1, 0, 0, FALSE, 1)
    /\ COUNTER = 0
    /\ rngTable = [s \in Seeds |-> [len \in 1..MaxNeighbors |-> 0]]
    /\ panicked = FALSE
    /\ now = FirstTick
    /\ lastOp = NoOp
    /\ routable = << >>
    /\ accepted = << >>
    /\ emitted = << >>
    /\ \E r \in 1..MaxRate, c \in 1..MaxCap, latency \in 1..MaxLatency,
          unidirectional \in BOOLEAN :
           simulator =
               add_edge(add_node(add_node(Simulator_new, TgenId, MaxCap, r, r),
                                 "node 1", c, 1, 0),
                        latency, "tgen->node1", TgenId, "node 1", unidirectional)
    /\ simTick = 0
    /\ calls = << >>
    /\ NoFilters

DropTick ==
    /\ ~panicked
    /\ simTick < MaxSimTicks
    /\ \E s \in {Simulator_tick(simulator, simTick, COUNTER),
                  Simulator_tick_with_storage(simulator, simTick, COUNTER)} :
           /\ simulator' = s.sim
           /\ COUNTER' = s.counter
           /\ panicked' = s.panic
           /\ calls' = calls \o s.log
    /\ simTick' = simTick + 1
    /\ UNCHANGED rngTable
    /\ UNCHANGED nodeVars
    /\ UNCHANGED filterVars

DropNext == DropTick

DropSpec == DropInit /\ [][DropNext]_vars

(***************************************************************************)
(* The plugin wrapper on its own: any sequence of recv and tick on the     *)
(* wrapper of a node.  lastOp.pre is the buffer before the call.           *)
(***************************************************************************)
WrapperInit ==
    /\ node = Node_new(NodeId, 1, 0, 0, TRUE, 1)
    /\ COUNTER = 0
    /\ rngTable = [s \in Seeds |-> [len \in 1..MaxNeighbors |-> 0]]
    /\ panicked = FALSE
    /\ now = FirstTick
    /\ lastOp = NoOp
    /\ routable = << >>
    /\ accepted = << >>
    /\ emitted = << >>
    /\ simulator = Simulator_new
    /\ simTick = 0
    /\ calls = << >>
    /\ NoFilters

WrapperRecv ==
    /\ ~panicked
    /\ COUNTER <= MaxUid
    /\ \E h \in InHeaders(node), data \in {"0", "1"} :
           LET rpc == [data |-> data, uid |-> COUNTER, headers |-> h]
           IN  \E p \in {PluginWrapper_recv(node, rpc)} :
                   /\ node' = p.node
                   /\ panicked' = p.panic
                   /\ lastOp' = [NoOp EXCEPT !.kind = "wrapper recv",
                                             !.pre = node.stored_rpc,
                                             !.in = <<rpc>>, !.panic = p.panic]
    /\ COUNTER' = COUNTER + 1
    /\ UNCHANGED <<rngTable, now, routable, accepted, emitted>>
    /\ UNCHANGED simVars
    /\ UNCHANGED filterVars

WrapperTick ==
    /\ ~panicked
    /\ lastOp.kind # "wrapper tick"
    /\ \E orc \in Oracle :
           \E r \in {PluginWrapper_tick(node, COUNTER, orc)} :
               /\ node' = r.node
               /\ COUNTER' = r.counter
               /\ panicked' = r.panic
               /\ lastOp' = [NoOp EXCEPT !.kind = "wrapper tick",
                                         !.pre = node.stored_rpc, !.tick = now,
                                         !.out = r.out, !.panic = r.panic,
                                         !.execs = r.execs]
    /\ UNCHANGED <<rngTable, now, routable, accepted, emitted>>
    /\ UNCHANGED simVars
    /\ UNCHANGED filterVars

WrapperNext == WrapperRecv \/ WrapperTick

WrapperSpec == WrapperInit /\ [][WrapperNext]_vars

(***************************************************************************)
(* A filter on its own: one service's filter, created with its workload    *)
(* name, is handed any sequence of messages.  A message is new, with the   *)
(* headers a node or another filter may have given it, or it is one the    *)
(* filter returned before, on its way through the next hook.               *)
(***************************************************************************)
MaxExecs == 2

Services == {RootId, "reviews-v1"}

Workload(w) == insert(NoHeaders, WorkloadKey, w)

LeafNode(w) == [label |-> w, attrs |-> insert(Workload(w), "height", "0")]

\* the FerriedData of a response that left ratings-v1, of one that left
\* reviews-v1 after it, of a request that left a productpage-v1 that had
\* stored nothing for it, and one holding only properties observed early
InFerried ==
    {[trace_graph |-> [nodes |-> <<LeafNode("ratings-v1")>>, edges |-> << >>],
      unassigned_properties |-> << >>],
     [trace_graph |-> [nodes |-> <<LeafNode("ratings-v1"),
                                   [label |-> "reviews-v1",
                                    attrs |-> insert(Workload("reviews-v1"), "height", "1")]>>,
                       edges |-> <<<<2, 1>>>>],
      unassigned_properties |-> << >>],
     [trace_graph |-> [nodes |-> <<[label |-> "productpage-v1",
                                    attrs |-> Workload("productpage-v1")]>>,
                       edges |-> << >>],
      unassigned_properties |-> << >>],
     [trace_graph |-> Graph_new,
      unassigned_properties |-> <<<<"productpage-v1", "request.total_size", "7">>,
                                  <<"reviews-v1", "request.total_size", "7">>>>]}

Routes == [direction : {"request", "response"}, location : {"ingress", "egress"}]

BadRoutes == {NoHeaders, [direction |-> "request"], [location |-> "ingress"],
              [direction |-> "reply", location |-> "ingress"],
              [direction |-> "response", location |-> "middle"]}

InFerriedHeaders ==
    {NoHeaders, [ferried_data |-> Undecodable]}
    \cup {[ferried_data |-> serde_json_to_string(fd)] : fd \in InFerried}

NewMessages ==
    {[data |-> "55", uid |-> u, headers |-> merge(r, h)] :
        u \in 0..(MaxUid - 1), r \in Routes \cup BadRoutes, h \in InFerriedHeaders}

Returned ==
    {[exec.out[i] EXCEPT !.headers = merge(r, @)] : i \in 1..Len(exec.out), r \in Routes}

FilterInit ==
    /\ node = Node_new(NodeId, 1, 0, 0, TRUE, 1)
    /\ COUNTER = MaxUid
    /\ rngTable = [s \in Seeds |-> [len \in 1..MaxNeighbors |-> 0]]
    /\ panicked = FALSE
    /\ now = FirstTick
    /\ lastOp = NoOp
    /\ routable = << >>
    /\ accepted = << >>
    /\ emitted = << >>
    /\ simulator = Simulator_new
    /\ simTick = 0
    /\ calls = << >>
    /\ \E w \in Services :
           filters = [v \in {w} |-> Filter_new_with_envoy_properties(Workload(v))]
    /\ exec = NoExec
    /\ applied = NoApplied

Executed(w, x, orc, r) ==
    /\ filters' = [filters EXCEPT ![w] = r.filter]
    /\ COUNTER' = r.counter
    /\ panicked' = r.panic
    /\ exec' = [n |-> exec.n + 1, whoami |-> w, x |-> <<x>>, orc |-> orc,
                pre |-> <<filters[w]>>, out |-> r.out, panic |-> r.panic, hook |-> r.hook]

Execute ==
    /\ ~panicked
    /\ exec.n < MaxExecs
    /\ \E w \in DOMAIN filters, x \in NewMessages \cup Returned, orc \in Oracle :
           Executed(w, x, orc, execute(filters[w], x, COUNTER, orc))
    /\ UNCHANGED <<rngTable, node, now, lastOp, routable, accepted, emitted, applied>>
    /\ UNCHANGED simVars

FilterNext == Execute

FilterSpec == FilterInit /\ [][FilterNext]_vars

(***************************************************************************)
(* The same, for a filter built by either constructor: new_with_envoy_     *)
(* properties with the workload name, or new, whose filter_state is empty. *)
(***************************************************************************)
NewFilterInit ==
    /\ node = Node_new(NodeId, 1, 0, 0, TRUE, 1)
    /\ COUNTER = MaxUid
    /\ rngTable = [s \in Seeds |-> [len \in 1..MaxNeighbors |-> 0]]
    /\ panicked = FALSE
    /\ now = FirstTick
    /\ lastOp = NoOp
    /\ routable = << >>
    /\ accepted = << >>
    /\ emitted = << >>
    /\ simulator = Simulator_new
    /\ simTick = 0
    /\ calls = << >>
    /\ \E w \in Services :
           filters \in {[v \in {w} |-> Filter_new_with_envoy_properties(Workload(v))],
                        [v \in {w} |-> Filter_new]}
    /\ exec = NoExec
    /\ applied = NoApplied

NewFilterSpec == NewFilterInit /\ [][FilterNext]_vars

(***************************************************************************)
(* The value extractor on its own: a pattern, a mapping of some of its     *)
(* nodes to nodes of a trace graph, and the FerriedData holding the trace  *)
(* graph.  The patterns are the filter's a -> b -> c, one without a node   *)
(* labelled a, and a alone.                                                *)
(***************************************************************************)
MaxPairs == 2

Patterns ==
    {create_target_graph,
     [nodes |-> <<[label |-> "b", attrs |-> NoHeaders], [label |-> "c", attrs |-> NoHeaders]>>,
      edges |-> <<<<1, 2>>>>],
     [nodes |-> <<[label |-> "a", attrs |-> NoHeaders]>>, edges |-> << >>]}

\* the trace of a request through productpage-v1, reviews-v1 and ratings-v1
Chain ==
    [trace_graph |->
         [nodes |-> <<LeafNode("ratings-v1"),
                      [label |-> "reviews-v1",
                       attrs |-> insert(Workload("reviews-v1"), "height", "1")],
                      [label |-> "productpage-v1",
                       attrs |-> insert(Workload("productpage-v1"), "height", "2")]>>,
          edges |-> <<<<2, 1>>, <<3, 2>>>>],
     unassigned_properties |-> << >>]

\* the mappings of at most MaxPairs pattern nodes to distinct trace nodes
Mappings(target_graph, trace_graph) ==
    {m \in UNION {[1..k -> node_indices(target_graph) \X node_indices(trace_graph)] :
                      k \in 0..MaxPairs} :
        \A i, j \in 1..Len(m) : i # j => m[i][1] # m[j][1] /\ m[i][2] # m[j][2]}

ValueInit ==
    /\ node = Node_new(NodeId, 1, 0, 0, TRUE, 1)
    /\ COUNTER = 0
    /\ rngTable = [s \in Seeds |-> [len \in 1..MaxNeighbors |-> 0]]
    /\ panicked = FALSE
    /\ now = FirstTick
    /\ lastOp = NoOp
    /\ routable = << >>
    /\ accepted = << >>
    /\ emitted = << >>
    /\ simulator = Simulator_new
    /\ simTick = 0
    /\ calls = << >>
    /\ filters = << >>
    /\ exec = NoExec
    /\ \E target_graph \in Patterns, fd \in InFerried \cup {Chain} :
           \E mapping \in Mappings(target_graph, fd.trace_graph) :
               applied = [NoApplied EXCEPT !.in = <<target_graph, mapping, fd>>]

GetValueForStorage ==
    /\ applied.fn = "none"
    /\ applied' = [applied EXCEPT
                       !.fn = "get_value_for_storage",
                       !.out = get_value_for_storage(applied.in[1], applied.in[2],
                                                     applied.in[3]),
                       !.panic = get_value_for_storage_panic(applied.in[1], applied.in[2],
                                                             applied.in[3])]
    /\ UNCHANGED <<COUNTER, rngTable, panicked, filters, exec>>
    /\ UNCHANGED nodeVars
    /\ UNCHANGED simVars

ValueNext == GetValueForStorage

ValueSpec == ValueInit /\ [][ValueNext]_vars

(***************************************************************************)
(* The matcher of graph_utils (iso.rs).  graph_g is the trace graph and    *)
(* graph_h the pattern.  S maps a pair <<node of G, node of H>> to a set   *)
(* of nodes of H.  Indexing S with a pair that is not a key panics, and so *)
(* does find_root on a graph without an in-degree-zero node.               *)
(***************************************************************************)
\* Graph::neighbors: the targets of the outgoing edges of n, the most
\* recently added edge first
RECURSIVE neighbors_before(_, _, _)
neighbors_before(g, n, k) ==
    IF k = 0 THEN << >>
    ELSE (IF g.edges[k][1] = n THEN <<g.edges[k][2]>> ELSE << >>)
             \o neighbors_before(g, n, k - 1)

Graph_neighbors(g, n) == neighbors_before(g, n, Len(g.edges))

\* neighbors_directed(n, Incoming)
parents(g, n) == {g.edges[k][1] : k \in {l \in 1..Len(g.edges) : g.edges[l][2] = n}}

\* DfsPostOrder pushes the neighbors of a node on its stack in the order
\* Graph::neighbors lists them, so the one listed last is visited first
RECURSIVE DfsPostOrder(_, _)
RECURSIVE post_order_of(_, _, _)
post_order_of(g, succ, i) ==
    IF i = 0 THEN << >>
    ELSE DfsPostOrder(g, succ[i]) \o post_order_of(g, succ, i - 1)

DfsPostOrder(g, n) == post_order_of(g, Graph_neighbors(g, n), Len(Graph_neighbors(g, n))) \o <<n>>

find_leaves(n, g) ==
    {v \in Range(DfsPostOrder(g, n)) : Graph_neighbors(g, v) = << >>}

\* the first in-degree-zero node; 0 stands for panic!("no root found")
find_root(g) ==
    IF \A n \in node_indices(g) : incoming_count(g, n) # 0 THEN 0
    ELSE CHOOSE n \in node_indices(g) :
             /\ incoming_count(g, n) = 0
             /\ \A m \in node_indices(g) : incoming_count(g, m) = 0 => n <= m

initialize_s(graph_g, graph_h) ==
    [key \in node_indices(graph_g) \X node_indices(graph_h) |->
        IF /\ key[1] \in find_leaves(find_root(graph_g), graph_g)
           /\ key[2] \in find_leaves(find_root(graph_h), graph_h)
        THEN parents(graph_h, key[2])
        ELSE {}]

maximum_matching_size(set_x, set_y) == 0

remove(v, i) == SubSeq(v, 1, i) \o SubSeq(v, i + 2, Len(v))

\* lines 107-117, iterations i, i + 1, ... of the loop over 0..u_neighbors.len();
\* st is S and whether the function has returned true
RECURSIVE matching_loop(_, _, _, _, _, _)
matching_loop(st, graph_node, node_h, u_neighbors, v_children, i) ==
    IF i >= Len(u_neighbors) \/ st.found THEN st
    ELSE LET x_i == IF i # 0 THEN remove(u_neighbors, i) ELSE u_neighbors
             maximum_matching == maximum_matching_size(x_i, v_children)
             s_set == IF maximum_matching = Len(x_i)
                      THEN [st.s EXCEPT ![<<graph_node, node_h>>] = @ \cup {u_neighbors[i + 1]}]
                      ELSE st.s
         IN  matching_loop([st EXCEPT !.s = s_set,
                                      !.found = node_h \in s_set[<<graph_node, node_h>>]],
                           graph_node, node_h, u_neighbors, v_children, i + 1)

\* lines 88-118 for one node of G and one node of H
match_pair(st, graph_node, node_h, u_neighbors, v_children) ==
    IF st.found \/ st.panic \/ Len(u_neighbors) > Len(v_children) + 1 THEN st
    ELSE IF \E u \in Range(u_neighbors), v \in Range(v_children) : <<u, v>> \notin DOMAIN st.s
    THEN [st EXCEPT !.panic = TRUE]
    ELSE matching_loop(st, graph_node, node_h, u_neighbors, v_children, 0)

RECURSIVE match_node(_, _, _, _, _)
match_node(st, graph_g, graph_h, graph_node, node_h) ==
    IF node_h > Len(graph_h.nodes) THEN st
    ELSE match_node(match_pair(st, graph_node, node_h, Graph_neighbors(graph_h, node_h),
                               Graph_neighbors(graph_g, graph_node)),
                    graph_g, graph_h, graph_node, node_h + 1)

RECURSIVE match_post_order(_, _, _, _, _)
match_post_order(st, graph_g, graph_h, post_order, k) ==
    IF k > Len(post_order) THEN st
    ELSE match_post_order(match_node(st, graph_g, graph_h, post_order[k], 1),
                          graph_g, graph_h, post_order, k + 1)

\* the value returned, and whether the call panicked instead
find_mapping_shamir(graph_g, graph_h) ==
    IF find_root(graph_g) = 0 \/ find_root(graph_h) = 0
    THEN [found |-> FALSE, panic |-> TRUE]
    ELSE LET st == match_post_order(
                       [s |-> initialize_s(graph_g, graph_h), found |-> FALSE, panic |-> FALSE],
                       graph_g, graph_h, DfsPostOrder(graph_g, find_root(graph_g)), 1)
         IN  [found |-> st.found /\ ~st.panic, panic |-> st.panic]

(***************************************************************************)
(* The matcher on its own: a trace graph and a pattern.  The graphs are    *)
(* the rooted trees of at most MaxNodes nodes, a graph being built parent  *)
(* before child; the trace may also be empty and the pattern may have two  *)
(* in-degree-zero nodes.                                                   *)
(***************************************************************************)
MaxNodes == 3

\* the tree in which node i > 1 hangs under node parent[i]
TreeOf(parent, labels) ==
    [nodes |-> [i \in 1..Len(labels) |-> [label |-> labels[i], attrs |-> NoHeaders]],
     edges |-> [k \in 1..(Len(labels) - 1) |-> <<parent[k + 1], k + 1>>]]

Trees(Labels) ==
    UNION {{TreeOf(parent, labels) :
                parent \in {q \in [1..n -> 0..(n - 1)] : \A i \in 1..n : q[i] < i /\ (i > 1 => q[i] > 0)},
                labels \in [1..n -> Labels]} : n \in 1..MaxNodes}

TraceGraphs == Trees({"a", "b"}) \cup {Graph_new}

TwoRoots ==
    {[nodes |-> <<[label |-> "a", attrs |-> NoHeaders], [label |-> l, attrs |-> NoHeaders]>>,
      edges |-> << >>] : l \in {"a", "*"}}

PatternGraphs == Trees({"a", "*"}) \cup TwoRoots

MatcherInit ==
    /\ node = Node_new(NodeId, 1, 0, 0, TRUE, 1)
    /\ COUNTER = 0
    /\ rngTable = [s \in Seeds |-> [len \in 1..MaxNeighbors |-> 0]]
    /\ panicked = FALSE
    /\ now = FirstTick
    /\ lastOp = NoOp
    /\ routable = << >>
    /\ accepted = << >>
    /\ emitted = << >>
    /\ simulator = Simulator_new
    /\ simTick = 0
    /\ calls = << >>
    /\ filters = << >>
    /\ exec = NoExec
    /\ \E graph_g \in TraceGraphs, graph_h \in PatternGraphs :
           applied = [NoApplied EXCEPT !.in = <<graph_g, graph_h>>]

FindMappingShamir ==
    /\ applied.fn = "none"
    /\ applied' = [applied EXCEPT
                       !.fn = "find_mapping_shamir",
                       !.out = <<find_mapping_shamir(applied.in[1], applied.in[2]).found>>,
                       !.panic = find_mapping_shamir(applied.in[1], applied.in[2]).panic]
    /\ UNCHANGED <<COUNTER, rngTable, panicked, filters, exec>>
    /\ UNCHANGED nodeVars
    /\ UNCHANGED simVars

MatcherNext == FindMappingShamir

MatcherSpec == MatcherInit /\ [][MatcherNext]_vars

(***************************************************************************)
(* Properties of the node under test.                                      *)
(***************************************************************************)
Uids(q) == [i \in 1..Len(q) |-> q[i].rpc.uid]
IsPrefix(s, t) == Len(s) <= Len(t) /\ s = SubSeq(t, 1, Len(s))
In == lastOp.in[1]
DestOf(rpc) == IF contains_key(rpc.headers, "dest") THEN {rpc.headers["dest"]} ELSE {}

(* C1: after any sequence of recv and tick on a node, with or without a
   filter and whatever number of messages the ingress hook returns, the
   length of the queue never exceeds the capacity. *)
C1_QueueWithinCapacity == Len(node.queue) <= node.capacity

(* C2: recv on a node whose queue length equals its capacity drops the
   message: the queue is unchanged, the filter is not invoked and nothing
   panics; a node without a filter that has received messages it can route
   and has not ticked since holds exactly the first capacity-many of them. *)
C2_FullQueueDrops ==
    /\ (lastOp.kind = "recv" /\ Len(lastOp.pre) = node.capacity) =>
           /\ node.queue = lastOp.pre
           /\ lastOp.execs = 0
           /\ node.stored_rpc = << >>
           /\ ~lastOp.panic /\ ~panicked
    /\ (~node.plugin /\ now = FirstTick) =>
           Uids(node.queue) = SubSeq(routable, 1, Min(node.capacity, Len(routable)))

C2_Witness ==
    /\ lastOp.kind = "recv" /\ ~node.plugin /\ now = FirstTick
    /\ Len(lastOp.pre) = node.capacity
    /\ Len(routable) = node.capacity + 1
    /\ Uids(node.queue) = SubSeq(routable, 1, node.capacity)
    /\ In.uid = routable[node.capacity + 1]

(* C3: every queue entry has a destination that is one of the node's
   neighbors and equals the dest header of the queued message; a message
   arriving with a dest header that names a neighbor is enqueued for exactly
   that neighbor with its headers unchanged. *)
C3_QueuedForNeighbor ==
    /\ \A i \in 1..Len(node.queue) :
           /\ node.queue[i].destination \in Range(node.neighbors)
           /\ DestOf(node.queue[i].rpc) = {node.queue[i].destination}
    /\ (/\ lastOp.kind = "recv" /\ ~lastOp.panic
        /\ Len(lastOp.pre) < node.capacity
        /\ DestOf(In) \cap Range(node.neighbors) # {}) =>
           /\ lastOp.added # << >>
           /\ lastOp.added[1] = [rpc |-> In, destination |-> In.headers["dest"]]
           /\ node.queue = lastOp.pre \o lastOp.added

C3_Witness ==
    /\ lastOp.kind = "recv" /\ ~lastOp.panic
    /\ Len(lastOp.pre) = 1 /\ Len(node.queue) = 2
    /\ DestOf(In) = {"reviews-v1"}
    /\ node.queue[2] = [rpc |-> In, destination |-> "reviews-v1"]
    /\ \E i \in 1..Len(node.queue) : \E u \in {"reviews-v1", StorageId} \ DestOf(In) :
           node.queue[i].destination = u /\ DestOf(node.queue[i].rpc) = {u}

(* C4: a node with at least one neighbor and a non-full queue that receives
   a message whose dest header is absent or names no neighbor (its own id,
   for one) does not drop it: the message is enqueued for one of the
   neighbors and its dest header is overwritten with that neighbor. *)
C4_UnroutableIsRerouted ==
    (/\ lastOp.kind = "recv" /\ ~lastOp.panic
     /\ Len(node.neighbors) > 0
     /\ Len(lastOp.pre) < node.capacity
     /\ DestOf(In) \cap Range(node.neighbors) = {}) =>
        \E i \in 1..Len(lastOp.added) :
            /\ lastOp.added[i].rpc.uid = In.uid
            /\ lastOp.added[i].destination \in Range(node.neighbors)
            /\ DestOf(lastOp.added[i].rpc) = {lastOp.added[i].destination}
            /\ node.queue = lastOp.pre \o lastOp.added

(* C5: a node with an empty neighbor list drops every message silently:
   recv never changes its queue, tick emits nothing, and neither operation
   panics. *)
NoNeighbors == Len(node.neighbors) = 0

C5_NoNeighborsDropsSilently ==
    NoNeighbors =>
        /\ node.queue = << >> /\ accepted = << >> /\ emitted = << >>
        /\ lastOp.kind = "recv" => node.queue = lastOp.pre
        /\ lastOp.kind = "tick" => lastOp.out = << >>
        /\ ~lastOp.panic /\ ~panicked

(* C5, amended: as C5, except that a panic can come from the filter of a
   node that has one: recv runs the filter before it routes.  tick never
   reaches the filter and never panics. *)
C5_NoNeighborsDropsAmended ==
    NoNeighbors =>
        /\ node.queue = << >> /\ accepted = << >> /\ emitted = << >>
        /\ lastOp.kind = "recv" => node.queue = lastOp.pre
        /\ lastOp.kind = "tick" =>
               lastOp.out = << >> /\ ~lastOp.panic /\ lastOp.execs = 0
        /\ panicked => (lastOp.kind = "recv" /\ node.plugin /\ lastOp.execs = 1)

C5_Witness ==
    /\ NoNeighbors /\ node.plugin /\ lastOp.kind = "tick" /\ now = FirstTick + 1
    /\ node.generation_rate = 2 /\ node.egress_rate = 2
    /\ COUNTER = 3 /\ lastOp.out = << >> /\ ~panicked

(* C6: Node.tick removes exactly min(egress_rate, queue length at the start
   of the tick) entries from the queue, the oldest ones, and never more than
   egress_rate. *)
C6_TickRemovesUpToEgressRate ==
    (lastOp.kind = "tick" /\ ~lastOp.panic) =>
        /\ lastOp.deq = Min(node.egress_rate, Len(lastOp.pre))
        /\ lastOp.deq <= node.egress_rate
        /\ node.queue = SubSeq(lastOp.pre, lastOp.deq + 1, Len(lastOp.pre))

C6_Witness ==
    /\ lastOp.kind = "tick" /\ ~lastOp.panic
    /\ Len(lastOp.pre) = 2 /\ node.egress_rate = 1 /\ Len(node.queue) = 1

(* C7: a node without a filter and with generation_rate 0 is FIFO: what
   tick has emitted so far is a prefix of what recv has accepted, in the
   same order, each with the destination chosen when it was enqueued. *)
C7_Fifo ==
    (~node.plugin /\ node.generation_rate = 0) =>
        /\ IsPrefix(emitted, accepted)
        /\ accepted = emitted \o node.queue

C7_Witness ==
    /\ ~node.plugin /\ node.generation_rate = 0
    /\ Len(emitted) = 2 /\ lastOp.kind = "tick" /\ Len(lastOp.pre) = 2
    /\ emitted[1].destination # emitted[2].destination
    /\ emitted[1].rpc.uid < emitted[2].rpc.uid

(* C8: a tick synthesizes fresh messages only if the queue is empty at its
   start, and then (given a neighbor) exactly generation_rate of them, each
   with the tick number as payload, direction request and a dest header
   naming a neighbor; a tick that starts with a non-empty queue only drains. *)
Synthesized == SubSeq(lastOp.out, Len(lastOp.out) - lastOp.gen + 1, Len(lastOp.out))

WellFormedSynthesized ==
    \A i \in 1..Len(Synthesized) :
        /\ Synthesized[i].rpc.data = to_string(lastOp.tick)
        /\ contains_key(Synthesized[i].rpc.headers, "direction")
        /\ Synthesized[i].rpc.headers["direction"] = "request"
        /\ DestOf(Synthesized[i].rpc) = {Synthesized[i].destination}
        /\ Synthesized[i].destination \in Range(node.neighbors)
        /\ \A j \in 1..Len(lastOp.pre) : lastOp.pre[j].rpc.uid # Synthesized[i].rpc.uid

C8_GeneratesOnlyWhenEmpty ==
    (lastOp.kind = "tick" /\ ~lastOp.panic) =>
        /\ lastOp.gen > 0 => lastOp.pre = << >>
        /\ (lastOp.pre = << >> /\ ~NoNeighbors) => lastOp.gen = node.generation_rate
        /\ lastOp.pre # << >> => lastOp.gen = 0
        /\ ~node.plugin => WellFormedSynthesized

(* C8, amended: a tick that returns has first drained the queue and then
   synthesized min(generation_rate, egress_rate - queue length at its start)
   messages (none when that is not positive or there is no neighbor), each
   with the tick number as payload, direction request and a dest header
   naming a neighbor. *)
C8_GeneratesUpToEgressBudget ==
    (lastOp.kind = "tick" /\ ~lastOp.panic) =>
        /\ lastOp.gen = IF NoNeighbors THEN 0
                        ELSE Min(node.generation_rate,
                                 Max(0, node.egress_rate - Len(lastOp.pre)))
        /\ ~node.plugin =>
               /\ WellFormedSynthesized
               /\ Len(lastOp.out) = lastOp.deq + lastOp.gen

C8_Witness ==
    /\ lastOp.kind = "tick" /\ ~lastOp.panic /\ ~node.plugin
    /\ Len(lastOp.pre) = 1 /\ lastOp.gen = 1 /\ Len(lastOp.out) = 2
    /\ lastOp.tick = 10 /\ lastOp.out[2].rpc.data = "10"

(***************************************************************************)
(* The calls of one Simulator tick, read from the history.                 *)
(***************************************************************************)
CallsAt(t) ==
    LET at_t(c) == c.at = t
    IN  SelectSeq(calls, at_t)

TicksOf(cs) ==
    LET is_tick(c) == c.op = "tick"
    IN  SelectSeq(cs, is_tick)

RecvsOf(cs) ==
    LET is_recv(c) == c.op = "recv"
    IN  SelectSeq(cs, is_recv)

UidsOf(c) == {c.msgs[i].uid : i \in 1..Len(c.msgs)}

\* what the tick calls of cs handed over, as <uid, sender, destination>
RECURSIVE Emissions(_)
Emissions(cs) ==
    IF cs = << >> THEN << >>
    ELSE [i \in 1..Len(Head(cs).msgs) |->
             [uid |-> Head(cs).msgs[i].uid, sender |-> Head(cs).id,
              destination |-> Head(cs).msgs[i].peer]] \o Emissions(Tail(cs))

\* what the recv calls of cs were given, as <uid, sender, destination>
Receipts(cs) ==
    [i \in 1..Len(cs) |->
        [uid |-> cs[i].msgs[1].uid, sender |-> cs[i].msgs[1].peer,
         destination |-> cs[i].id]]

\* C9: within one Simulator tick every element's tick runs before any
\* element's recv, so no message is in the tick output of two elements in
\* the same tick, whatever the registration order; and every message
\* emitted in tick t is handed to its destination's recv in tick t, in the
\* order of emission.
C9_TicksBeforeRecvs ==
    \A t \in 0..(simTick - 1) :
        LET cs == CallsAt(t)
            ticks == TicksOf(cs)
            recvs == RecvsOf(cs)
        IN  /\ cs = ticks \o recvs
            /\ [i \in 1..Len(ticks) |-> ticks[i].id] = simulator.order
            /\ \A i, j \in 1..Len(ticks) :
                   i # j => UidsOf(ticks[i]) \cap UidsOf(ticks[j]) = {}
            /\ Receipts(recvs) = Emissions(ticks)

\* an element registered before its destination hands it a message, and
\* the destination, ticking later in that tick, emits messages of its own
C9_Witness ==
    \E t \in 1..(simTick - 1) :
        LET ticks == TicksOf(CallsAt(t))
            recvs == RecvsOf(CallsAt(t))
        IN  \E i, j \in 1..Len(ticks) :
                /\ i < j
                /\ ticks[j].msgs # << >>
                /\ \E k \in 1..Len(ticks[i].msgs) :
                       /\ ticks[i].msgs[k].peer = ticks[j].id
                       /\ \E r \in 1..Len(recvs) :
                              /\ recvs[r].id = ticks[j].id
                              /\ recvs[r].msgs[1].uid = ticks[i].msgs[k].uid

(***************************************************************************)
(* The traffic of one edge in one direction, read from the history: what   *)
(* the edge received for endpoint d and what it delivered to d, each as    *)
(* <uid, tick>, in order.                                                  *)
(***************************************************************************)
Opposing(e, sender) == IF sender = e.endpoint_a THEN e.endpoint_b ELSE e.endpoint_a

EdgeReceived(e, d) ==
    LET for_d(c) == c.op = "recv" /\ c.id = e.id /\ Opposing(e, c.msgs[1].peer) = d
        cs == SelectSeq(calls, for_d)
    IN  [i \in 1..Len(cs) |-> [uid |-> cs[i].msgs[1].uid, at |-> cs[i].at]]

RECURSIVE Deliveries(_, _)
Deliveries(cs, d) ==
    IF cs = << >> THEN << >>
    ELSE LET to_d(m) == m.peer = d
             ms == SelectSeq(Head(cs).msgs, to_d)
         IN  [i \in 1..Len(ms) |-> [uid |-> ms[i].uid, at |-> Head(cs).at]]
             \o Deliveries(Tail(cs), d)

EdgeDelivered(e, d) ==
    LET by_e(c) == c.op = "tick" /\ c.id = e.id
    IN  Deliveries(SelectSeq(calls, by_e), d)

\* C10: every message an edge delivers at tick t was received by that edge
\* at tick t - latency, never earlier and never later, and the messages
\* travelling in one direction are delivered in the order of their receipt.
C10_EdgeLatencyFifo ==
    \A id \in DOMAIN simulator.edges :
        LET e == simulator.edges[id]
        IN  \A d \in {e.endpoint_a, e.endpoint_b} :
                LET received == EdgeReceived(e, d)
                    delivered == EdgeDelivered(e, d)
                IN  /\ Len(delivered) <= Len(received)
                    /\ \A k \in 1..Len(delivered) :
                           /\ delivered[k].uid = received[k].uid
                           /\ delivered[k].at = received[k].at + e.latency
                    /\ \A k \in (Len(delivered) + 1)..Len(received) :
                           received[k].at + e.latency >= simTick

\* a bidirectional edge of latency 2 has delivered two messages it received
\* in the same tick to one endpoint, and a message to the other endpoint
C10_Witness ==
    \E id \in DOMAIN simulator.edges :
        LET e == simulator.edges[id]
            forth == EdgeDelivered(e, e.endpoint_b)
            back == EdgeDelivered(e, e.endpoint_a)
        IN  /\ e.latency = 2
            /\ ~e.unidirectional
            /\ back # << >>
            /\ \E k \in 1..(Len(forth) - 1) :
                   /\ forth[k].at = forth[k + 1].at
                   /\ forth[k].uid # forth[k + 1].uid

\* C11: a unidirectional edge carries messages from endpoint_a to endpoint_b
\* only: in no tick does it hand a message over for endpoint_a, and
\* endpoint_a is never given a message by it.
C11_UnidirectionalOneWay ==
    \A id \in DOMAIN simulator.edges :
        LET e == simulator.edges[id]
        IN  e.unidirectional =>
                /\ EdgeDelivered(e, e.endpoint_a) = << >>
                /\ \A i \in 1..Len(e.queue) : e.queue[i].dest = e.endpoint_b
                /\ \A i \in 1..Len(calls) :
                       (calls[i].op = "recv" /\ calls[i].id = e.endpoint_a) =>
                           calls[i].msgs[1].peer # id

\* a unidirectional edge has delivered a message to endpoint_b, which
\* received it from the edge
C11_Witness ==
    \E id \in DOMAIN simulator.edges :
        LET e == simulator.edges[id]
        IN  /\ e.unidirectional
            /\ EdgeDelivered(e, e.endpoint_b) # << >>
            /\ \E i \in 1..Len(calls) :
                   /\ calls[i].op = "recv" /\ calls[i].id = e.endpoint_b
                   /\ calls[i].msgs[1].peer = id

(***************************************************************************)
(* Messages that cannot be delivered, read from the history.               *)
(***************************************************************************)
\* the uid is nowhere in the simulator and in no call after call i
GoneAfter(uid, i) ==
    /\ \A j \in (i + 1)..Len(calls) : uid \notin UidsOf(calls[j])
    /\ \A n \in DOMAIN simulator.nodes :
           \A k \in 1..Len(simulator.nodes[n].queue) :
               simulator.nodes[n].queue[k].rpc.uid # uid
    /\ \A e \in DOMAIN simulator.edges :
           \A k \in 1..Len(simulator.edges[e].queue) :
               simulator.edges[e].queue[k].rpc.uid # uid

UnknownDestination(c, k) ==
    c.op = "tick" /\ k <= Len(c.msgs) /\ c.msgs[k].peer \notin Registered(simulator)

RefusedAtFullQueue(c) == c.op = "recv" /\ c.full

\* C12: a message whose destination names no registered element, or that
\* arrives at a node whose queue is full, is dropped and never retried: no
\* element is given it in this or any later tick, no queue holds it, and
\* the simulation goes on without a panic.
C12_DroppedNeverRetried ==
    /\ ~panicked
    /\ \A i \in 1..Len(calls) :
           /\ \A k \in 1..Len(calls[i].msgs) :
                  UnknownDestination(calls[i], k) => GoneAfter(calls[i].msgs[k].uid, i)
           /\ RefusedAtFullQueue(calls[i]) => GoneAfter(calls[i].msgs[1].uid, i)

\* a storage message for the unregistered id and a message refused at a
\* full queue were both dropped at least two ticks ago, and elements have
\* been given other messages since
C12_Witness ==
    \E i, j \in 1..Len(calls) :
        /\ UnknownDestination(calls[i], 1) /\ calls[i].msgs[1].peer = StorageId
        /\ RefusedAtFullQueue(calls[j])
        /\ calls[i].at + 2 <= simTick /\ calls[j].at + 2 <= simTick
        /\ calls[Len(calls)].op = "recv" /\ calls[Len(calls)].at = simTick - 1

(* C13: the plugin wrapper buffers at most one message.  recv succeeds
   exactly when no message is buffered and then buffers its argument; with
   a message buffered it fails with the Overwrite assertion.  A tick that
   returns leaves the buffer empty, has run execute once if a message was
   buffered, on that message, and not at all otherwise, and returns
   nothing when no message was buffered. *)
C13_WrapperBuffersOne ==
    /\ Len(node.stored_rpc) <= 1
    /\ lastOp.kind = "wrapper recv" =>
           /\ lastOp.panic <=> lastOp.pre # << >>
           /\ node.stored_rpc = IF lastOp.panic THEN lastOp.pre ELSE lastOp.in
    /\ lastOp.kind = "wrapper tick" =>
           /\ lastOp.execs = IF lastOp.pre = << >> THEN 0 ELSE 1
           /\ lastOp.pre = << >> => (lastOp.out = << >> /\ ~lastOp.panic)
           /\ ~lastOp.panic =>
                  /\ node.stored_rpc = << >>
                  /\ lastOp.pre # << >> =>
                         /\ lastOp.out # << >>
                         /\ lastOp.out[1].uid = lastOp.pre[1].uid

\* a message went through recv and tick, the next is buffered, and a
\* further recv fails with the Overwrite assertion
C13_Witness ==
    /\ lastOp.kind = "wrapper recv" /\ lastOp.panic /\ panicked
    /\ lastOp.pre # << >> /\ lastOp.pre[1].uid = 1 /\ In.uid = 2
    /\ node.stored_rpc = lastOp.pre

(***************************************************************************)
(* The last execute: its input, the filter before and after it.            *)
(***************************************************************************)
X == exec.x[1]
Pre == exec.pre[1]
Post == filters[exec.whoami]
HasRoute(h) ==
    /\ contains_key(h, "direction") /\ contains_key(h, "location")
    /\ h["direction"] \in {"request", "response"}
    /\ h["location"] \in {"ingress", "egress"}
HookOf(h) ==
    IF h["direction"] = "request"
    THEN (IF h["location"] = "ingress" THEN "on_incoming_requests"
          ELSE "on_outgoing_requests")
    ELSE (IF h["location"] = "ingress" THEN "on_incoming_responses"
          ELSE "on_outgoing_responses")

(* C14: execute runs the one hook that (direction, location) selects:
   (request, ingress) on_incoming_requests, (request, egress)
   on_outgoing_requests, (response, ingress) on_incoming_responses,
   (response, egress) on_outgoing_responses.  A message whose direction is
   not request or response, whose location is not ingress or egress, or
   that lacks either header makes execute panic: no hook runs, nothing is
   emitted and the stored data is untouched. *)
C14_ExecuteDispatch ==
    exec.n > 0 =>
        IF HasRoute(X.headers)
        THEN exec.hook = HookOf(X.headers)
        ELSE /\ exec.panic /\ panicked
             /\ exec.hook = "none"
             /\ exec.out = << >>
             /\ Post.envoy_shared_data = Pre.envoy_shared_data

\* a response arriving at the filter went to on_incoming_responses, after an
\* earlier message went through another hook
C14_Witness ==
    /\ exec.n = 2 /\ ~exec.panic
    /\ X.headers["direction"] = "response" /\ X.headers["location"] = "ingress"
    /\ exec.hook = "on_incoming_responses"

(* C15: every hook forwards the original message: the first message
   execute returns has the uid and the payload of its input;
   on_incoming_requests, on_outgoing_requests and on_incoming_responses
   return exactly one message, on_outgoing_responses one or two. *)
C15_HooksForwardOriginal ==
    (exec.n > 0 /\ HasRoute(X.headers)) =>
        /\ Len(exec.out) >= 1
        /\ exec.out[1].uid = X.uid /\ exec.out[1].data = X.data
        /\ Len(exec.out) <= (IF exec.hook = "on_outgoing_responses" THEN 2 ELSE 1)

\* the FerriedData in the ferried_data header of a message, if it decodes
Ferried(m) ==
    IF contains_key(m.headers, "ferried_data")
       /\ serde_json_from_str(m.headers["ferried_data"]).ok
    THEN <<serde_json_from_str(m.headers["ferried_data"]).value>>
    ELSE << >>
\* the value for storage: the height of the root of the trace graph the
\* original message carries away, when the matcher found the target graph
HeightOfRoot(g) ==
    IF g.nodes = << >> \/ \A n \in node_indices(g) : incoming_count(g, n) # 0 THEN << >>
    ELSE IF contains_key(g.nodes[trace_root(g)].attrs, "height")
    THEN <<g.nodes[trace_root(g)].attrs["height"]>>
    ELSE << >>
StorageValueOf(m) ==
    IF exec.orc = "match" /\ Ferried(m) # << >>
    THEN HeightOfRoot(Ferried(m)[1].trace_graph) ELSE << >>
StorageHeaders(whoami) ==
    [k \in {"src", "dest", "direction"} |->
        CASE k = "src" -> whoami [] k = "dest" -> "storage" [] k = "direction" -> "request"]

(* C16: a storage message is emitted only by on_outgoing_responses of the
   filter whose workload name is productpage-v1, and exactly when the
   matcher returns a mapping and the value extractor yields a value.  It
   follows the original message, its payload is the extracted value and its
   headers are src = whoami, dest = "storage", direction = "request".  In
   every other case execute emits exactly the original message. *)
C16_StorageMessage ==
    (exec.n > 0 /\ HasRoute(X.headers)) =>
        /\ Len(exec.out) >= 1
        /\ exec.out[1].uid = X.uid /\ exec.out[1].data = X.data
        /\ IF /\ exec.hook = "on_outgoing_responses"
              /\ exec.whoami = "productpage-v1"
              /\ StorageValueOf(exec.out[1]) # << >>
           THEN /\ Len(exec.out) = 2
                /\ exec.out[2].data = StorageValueOf(exec.out[1])[1]
                /\ exec.out[2].headers = StorageHeaders(exec.whoami)
                /\ exec.out[2].uid # X.uid
           ELSE Len(exec.out) = 1

\* the FerriedData a filter has stored and the ones the last execute emitted
StoredData(f) ==
    {serde_json_from_str(f.envoy_shared_data[u]).value :
        u \in {v \in DOMAIN f.envoy_shared_data :
                   serde_json_from_str(f.envoy_shared_data[v]).ok}}
EmittedData == UNION {Range(Ferried(exec.out[i])) : i \in 1..Len(exec.out)}
DistinctLabels(g) ==
    \A i, j \in node_indices(g) : g.nodes[i].label = g.nodes[j].label => i = j
DistinctEdges(g) ==
    \A k, l \in 1..Len(g.edges) : g.edges[k] = g.edges[l] => k = l

(* C18: after any sequence of hook executions, every trace graph stored in
   envoy_shared_data and every trace graph written into an emitted
   ferried_data header has pairwise distinct node labels and no edge
   twice. *)
C18_DistinctLabelsAndEdges ==
    \A w \in DOMAIN filters :
        \A fd \in StoredData(filters[w]) \cup EmittedData :
            DistinctLabels(fd.trace_graph) /\ DistinctEdges(fd.trace_graph)

(* C19: store is idempotent.  After a hook has stored the headers of a
   message that carries a FerriedData, storing the same headers for the same uid again, or passing
   the same message through the hook again, leaves envoy_shared_data as it
   is, also when this was the first store for the uid; and merging a
   stored FerriedData with itself gives the same FerriedData. *)
C19_StoreIdempotent ==
    (exec.n > 0 /\ ~exec.panic
     /\ exec.hook \in {"on_incoming_requests", "on_incoming_responses"}
     /\ Ferried(exec.out[1]) # << >>) =>
        /\ store_headers(Post, X.uid, exec.out[1].headers) = Post
        /\ execute(Post, X, COUNTER, exec.orc).filter = Post
        /\ \A fd \in StoredData(Post) : merge_into(fd, fd) = fd

\* what the filter had stored for the uid of the last message before the
\* execute, and has stored for it now
StoredFor(f, uid) ==
    IF contains_key(f.envoy_shared_data, to_string(uid))
       /\ serde_json_from_str(f.envoy_shared_data[to_string(uid)]).ok
    THEN <<serde_json_from_str(f.envoy_shared_data[to_string(uid)]).value>>
    ELSE << >>
TriplesOf(fds) == UNION {Range(fd.unassigned_properties) : fd \in Range(fds)}
Drained(fd) ==
    /\ \A t \in Range(fd.unassigned_properties) : get_node_with_id(fd.trace_graph, t[1]) = 0
    /\ \A i, j \in 1..Len(fd.unassigned_properties) :
           fd.unassigned_properties[i] = fd.unassigned_properties[j] => i = j
    /\ assign_properties(fd) = fd
InstalledFrom(triples, fd) ==
    \A t \in triples :
        get_node_with_id(fd.trace_graph, t[1]) # 0 =>
            LET n == get_node_with_id(fd.trace_graph, t[1])
            IN  /\ contains_key(fd.trace_graph.nodes[n].attrs, t[2])
                /\ fd.trace_graph.nodes[n].attrs[t[2]] = t[3]
Stores == {"on_incoming_requests", "on_incoming_responses"}
\* merge_headers adds to the stored data only on a response: a request
\* leaves with the headers it came with
Merges == {"on_outgoing_responses"}

(* C20: after every store and every merge, the FerriedData stored in
   envoy_shared_data and the one in an emitted ferried_data header hold no
   unassigned property whose node label is in the trace graph and no
   unassigned property twice, and assign_properties changes nothing in
   them; every property that was unassigned and whose label is now in the
   graph is an attribute of that node. *)
C20_PropertiesAssigned ==
    /\ \A w \in DOMAIN filters : \A fd \in StoredData(filters[w]) \cup EmittedData :
           Drained(fd)
    /\ (exec.n > 0 /\ exec.hook \in Stores /\ ~exec.panic) =>
           \A fd \in Range(StoredFor(Post, X.uid)) :
               InstalledFrom(TriplesOf(StoredFor(Pre, X.uid) \o Ferried(exec.out[1])), fd)
    /\ (exec.n > 0 /\ exec.hook \in Merges /\ ~exec.panic) =>
           \A fd \in Range(Ferried(exec.out[1])) :
               InstalledFrom(TriplesOf(StoredFor(Pre, X.uid)), fd)

\* the filter had stored an unassigned property of its own service; the
\* response leaving it put the service into the graph with that attribute
C20_Witness ==
    /\ exec.n = 2 /\ exec.hook = "on_outgoing_responses" /\ ~exec.panic
    /\ <<exec.whoami, "request.total_size", "7">> \in TriplesOf(StoredFor(Pre, X.uid))
    /\ \E fd \in Range(Ferried(exec.out[1])) :
           /\ get_node_with_id(fd.trace_graph, exec.whoami) # 0
           /\ <<exec.whoami, "request.total_size", "7">> \notin Range(fd.unassigned_properties)
           /\ <<"reviews-v1", "request.total_size", "7">> \in
                  Range(fd.unassigned_properties) \cup {<<exec.whoami, "request.total_size", "7">>}

\* the in-degree-zero nodes of a graph and the children of a node
Roots(g) == {n \in node_indices(g) : incoming_count(g, n) = 0}
Children(g, n) == {g.edges[k][2] : k \in outgoing_edges(g, n)}
\* the last execute was on_outgoing_responses for a uid with stored data
\* and emitted a trace graph
MergedResponse ==
    /\ exec.n > 0 /\ exec.hook = "on_outgoing_responses" /\ ~exec.panic
    /\ StoredFor(Pre, X.uid) # << >>
    /\ Ferried(exec.out[1]) # << >>
StoredGraph == StoredFor(Pre, X.uid)[1].trace_graph
EmittedGraph == Ferried(exec.out[1])[1].trace_graph

(* C21: after on_outgoing_responses at node n for a uid with stored data,
   the emitted trace graph has exactly one node of in-degree zero, it is
   labelled n, its children are exactly the nodes that had in-degree zero
   in the stored graph, and every node and edge of the stored graph is
   still there, unaltered. *)
C21_NewRootOverStoredGraph ==
    MergedResponse =>
        /\ Roots(EmittedGraph) = {Len(StoredGraph.nodes) + 1}
        /\ EmittedGraph.nodes[Len(StoredGraph.nodes) + 1].label = exec.whoami
        /\ Children(EmittedGraph, Len(StoredGraph.nodes) + 1) = Roots(StoredGraph)
        /\ \A i \in node_indices(StoredGraph) : EmittedGraph.nodes[i] = StoredGraph.nodes[i]
        /\ \A k \in 1..Len(StoredGraph.edges) : EmittedGraph.edges[k] = StoredGraph.edges[k]

\* the last execute was on_outgoing_responses and emitted a trace graph
ReducedResponse ==
    /\ exec.n > 0 /\ exec.hook = "on_outgoing_responses" /\ ~exec.panic
    /\ Ferried(exec.out[1]) # << >>
\* the data the reduction was applied to: what merge_headers left in the
\* headers, or the default when it left none
MergedHeaders == merge_headers(Post, X.uid, X.headers)
ReductionInput ==
    IF contains_key(MergedHeaders, "ferried_data")
    THEN serde_json_from_str(MergedHeaders["ferried_data"]).value
    ELSE FerriedData_default
ChildHeights(g, n) == {parse_u32(g.nodes[c].attrs["height"]) : c \in Children(g, n)}
ExpectedHeight(g, n) ==
    IF Children(g, n) = {} THEN "0"
    ELSE to_string(1 + CHOOSE m \in ChildHeights(g, n) : \A k \in ChildHeights(g, n) : k <= m)
Labelled(g, l) == {n \in node_indices(g) : g.nodes[n].label = l}

(* C22: after on_outgoing_responses at node n, the height of n in the
   emitted trace graph is "0" when n has no children there and otherwise
   one more than the largest height of its children; the reduction changes
   no attribute of any other node; and applying the reduction again to the
   emitted graph changes nothing. *)
C22_HeightReduction ==
    ReducedResponse =>
        /\ \A n \in Labelled(EmittedGraph, exec.whoami) :
               /\ contains_key(EmittedGraph.nodes[n].attrs, "height")
               /\ EmittedGraph.nodes[n].attrs["height"] = ExpectedHeight(EmittedGraph, n)
        /\ \A n \in node_indices(EmittedGraph) \ Labelled(EmittedGraph, exec.whoami) :
               EmittedGraph.nodes[n] = ReductionInput.trace_graph.nodes[n]
        /\ execute_udfs_and_check_trace_lvl_prop(Post, Ferried(exec.out[1])[1]).fd
               = Ferried(exec.out[1])[1]

\* the arguments of the last call of a free function
Arg(i) == applied.in[i]
\* the trace nodes a mapping assigns to the pattern nodes labelled l
MappedFrom(target_graph, mapping, l) ==
    {mapping[i][2] : i \in {j \in 1..Len(mapping) : mapping[j][1] \in Labelled(target_graph, l)}}
HeightsOf(fd, ns) ==
    {fd.trace_graph.nodes[n].attrs["height"] :
        n \in {k \in ns : contains_key(fd.trace_graph.nodes[k].attrs, "height")}}
ExtractedFrom == MappedFrom(Arg(1), Arg(2), "a")

(* C23: the value extractor returns the height attribute of the trace node
   that the mapping assigns to the pattern node labelled "a"; it returns
   none, without panicking, when the pattern has no node labelled "a", when
   the mapping has no pair for that node, and when the mapped trace node has
   no height attribute. *)
C23_ValueForStorage ==
    applied.fn = "get_value_for_storage" =>
        /\ ~applied.panic
        /\ Range(applied.out) = HeightsOf(Arg(3), ExtractedFrom)
        /\ Len(applied.out) <= 1

C23_Witness ==
    /\ applied.fn = "get_value_for_storage"
    /\ applied.out = <<"1">>
    /\ Len(Arg(2)) = MaxPairs
    /\ Arg(2)[1][1] # get_node_with_id(Arg(1), "a")

\* the last execute ran a hook on a message whose ferried_data header
\* cannot be decoded
UndecodableInput ==
    /\ exec.n > 0 /\ exec.hook \in {"on_incoming_requests", "on_outgoing_responses"}
    /\ contains_key(X.headers, "ferried_data")
    /\ X.headers["ferried_data"] = Undecodable

(* C24: when the ferried_data header of a message cannot be decoded, the
   hook that processes the message does not panic, emits exactly the input
   message with unchanged headers and payload, and emits no storage
   message. *)
C24_UndecodablePassesThrough ==
    UndecodableInput => ~exec.panic /\ exec.out = <<X>>


\* the decode of the hook failed: on_incoming_requests decodes the header of
\* the message, on_outgoing_responses the header merge_headers left
DecodeFailed ==
    /\ exec.n > 0
    /\ \/ exec.hook = "on_incoming_requests" /\ UndecodableInput
       \/ /\ exec.hook = "on_outgoing_responses"
          /\ contains_key(MergedHeaders, "ferried_data")
          /\ MergedHeaders["ferried_data"] = Undecodable

(* C24, amended: when the ferried_data header a hook decodes cannot be
   decoded (in on_outgoing_responses that is the header as merge_headers
   left it), the hook does not panic, emits exactly the input message with
   unchanged headers and payload, and emits no storage message. *)
C24_DecodeFailurePassesThrough ==
    DecodeFailed => ~exec.panic /\ exec.out = <<X>>

C24_Witness ==
    /\ DecodeFailed
    /\ exec.hook = "on_outgoing_responses"
    /\ exec.whoami = RootId
    /\ exec.orc = "match"


\* has_property_subset of utils.rs: every pair of the second map is in the first
has_property_subset(property_set_1, property_set_2) ==
    \A property \in DOMAIN property_set_2 :
        /\ contains_key(property_set_1, property)
        /\ property_set_1[property] = property_set_2[property]
\* f embeds the pattern h in the trace g: injective, root on root, labels and
\* attributes compatible, the children of a pattern node on children of its image
IsEmbedding(f, h, g) ==
    /\ \A u, x \in node_indices(h) : f[u] = f[x] => u = x
    /\ \A u \in Roots(h) : f[u] \in Roots(g)
    /\ \A u \in node_indices(h) :
           /\ h.nodes[u].label \in {"*", g.nodes[f[u]].label}
           /\ has_property_subset(g.nodes[f[u]].attrs, h.nodes[u].attrs)
    /\ \A k \in 1..Len(h.edges) :
           \E l \in 1..Len(g.edges) : g.edges[l] = <<f[h.edges[k][1]], f[h.edges[k][2]]>>
Contained(h, g) ==
    \E f \in [node_indices(h) -> node_indices(g)] : IsEmbedding(f, h, g)
Matched == applied.fn = "find_mapping_shamir"
IsTree(g) == Cardinality(Roots(g)) = 1

(* C26: for every trace tree G and pattern tree H of the bounded family the
   matcher returns a mapping if and only if H is contained in G (a
   root-aligned, label- and attribute-compatible embedding that sends the
   children of each pattern node to distinct children of its image exists);
   otherwise it returns none, in particular for a trace of one node and a
   pattern of two. *)
C26_MatchesIffContained ==
    (Matched /\ IsTree(Arg(1)) /\ IsTree(Arg(2))) =>
        /\ ~applied.panic
        /\ applied.out[1] <=> Contained(Arg(2), Arg(1))


\* what the last call of the matcher came to: a mapping (true), none
\* (false), or no result at all because the call panicked; the function
\* has no other way to fail
Outcome ==
    IF applied.panic THEN "panic" ELSE IF applied.out[1] THEN "mapping" ELSE "none"

(* C28: the matcher fails with MalformedPattern when the pattern graph has
   more than one in-degree-zero node, and it returns none, without failing
   or panicking, when the trace graph is empty. *)
C28_MalformedPatternAndEmptyTrace ==
    Matched =>
        /\ Cardinality(Roots(Arg(2))) > 1 => Outcome = "MalformedPattern"
        /\ (Arg(1) = Graph_new /\ IsTree(Arg(2))) => Outcome = "none"


\* the filter was built with its workload name in its ambient state
HasWorkload(f) == contains_key(f.filter_state, WorkloadKey)

(* C29: whoami of a filter is unset until its first execute, the first
   execute sets it to the value of node.metadata.WORKLOAD_NAME in the
   ambient state, and it has that value after every later execute;
   target_graph is likewise built once and never replaced; execute on a
   filter whose ambient state lacks node.metadata.WORKLOAD_NAME aborts on
   the assertion before any hook runs. *)
C29_WhoamiSetOnce ==
    /\ exec.n = 0 =>
           \A w \in DOMAIN filters :
               filters[w].whoami = << >> /\ filters[w].target_graph = << >>
    /\ (exec.n > 0 /\ HasWorkload(Pre)) =>
           /\ Post.whoami = <<Pre.filter_state[WorkloadKey]>>
           /\ Post.target_graph = <<create_target_graph>>
           /\ Post.filter_state = Pre.filter_state
           /\ exec.n > 1 => Post.whoami = Pre.whoami /\ Post.target_graph = Pre.target_graph
    /\ (exec.n > 0 /\ ~HasWorkload(Pre)) =>
           exec.panic /\ exec.hook = "none" /\ exec.out = << >> /\ Post = Pre

C29_Witness ==
    /\ exec.n = MaxExecs
    /\ HasWorkload(Pre)
    /\ ~exec.panic
    /\ exec.hook = "on_outgoing_responses"


\* the uids under which the filter holds stored data
StoredUids(f) == {parse_u32(k) : k \in DOMAIN f.envoy_shared_data}

(* C30: every newly created message gets a uid strictly greater than the
   uid of every message created before it, so no two created messages share
   a uid; a message a hook forwards keeps its uid; a storage message is a
   new message whose uid differs from the uid of the original it
   accompanies.  COUNTER is the uid the next message created will get. *)
C30_UidsIncrease ==
    exec.n > 0 =>
        /\ X.uid < COUNTER
        /\ \A u \in StoredUids(Post) : u < COUNTER
        /\ \A i \in 1..Len(exec.out) : exec.out[i].uid < COUNTER
        /\ Len(exec.out) >= 1 => exec.out[1].uid = X.uid
        /\ Len(exec.out) = 2 =>
               /\ exec.out[2].uid = COUNTER - 1
               /\ exec.out[2].uid > X.uid
               /\ \A u \in StoredUids(Post) : u < exec.out[2].uid

\* a second storage message was created, for the storage message created
\* before it
C30_Witness ==
    /\ exec.n = 2
    /\ Len(exec.out) = 2
    /\ COUNTER = MaxUid + 2
    /\ X.uid = MaxUid


\* the last execute ran merge_headers: the two outgoing hooks call it first
Merged == exec.n > 0 /\ exec.hook \in {"on_outgoing_requests", "on_outgoing_responses"}
\* what the ferried_data header merge_headers left decodes to
MergedData ==
    IF contains_key(MergedHeaders, "ferried_data")
       /\ serde_json_from_str(MergedHeaders["ferried_data"]).ok
    THEN <<serde_json_from_str(MergedHeaders["ferried_data"]).value>>
    ELSE << >>
FreshData(whoami) ==
    [trace_graph |-> [nodes |-> <<[label |-> whoami, attrs |-> Workload(whoami)]>>,
                      edges |-> << >>],
     unassigned_properties |-> << >>]

(* C31: merge always produces a ferried_data header.  When envoy_shared_data
   has no entry for the uid the header encodes a graph of exactly one node,
   labelled whoami and carrying node.metadata.WORKLOAD_NAME = whoami, and no
   edge.  When an entry exists the header encodes the FerriedData stored for
   the uid, with this node added as root if the direction is response, for
   the request direction as well as for the response direction. *)
C31_MergeWritesHeader ==
    Merged =>
        /\ ~contains_key(Pre.envoy_shared_data, to_string(X.uid)) =>
               MergedData = <<FreshData(exec.whoami)>>
        /\ (StoredFor(Pre, X.uid) # << >> /\ X.headers["direction"] = "request") =>
               MergedData = StoredFor(Pre, X.uid)
        /\ (StoredFor(Pre, X.uid) # << >> /\ X.headers["direction"] = "response") =>
               /\ MergedData # << >>
               /\ Len(MergedData[1].trace_graph.nodes) = Len(StoredGraph.nodes) + 1
               /\ MergedData[1].trace_graph.nodes[Len(StoredGraph.nodes) + 1].label
                      = exec.whoami


\* fd records the workload name of the node labelled l: as a triple waiting
\* for the node, or as an attribute of a node with that label
RecordsWorkload(fd, l) ==
    \/ <<l, WorkloadKey, l>> \in Range(fd.unassigned_properties)
    \/ \E n \in Labelled(fd.trace_graph, l) :
           /\ contains_key(fd.trace_graph.nodes[n].attrs, WorkloadKey)
           /\ fd.trace_graph.nodes[n].attrs[WorkloadKey] = l

(* C32: after on_incoming_requests at node n, the FerriedData written to the
   emitted message and the one stored under its uid record the ambient
   attributes n contributes, at least its workload name, either as an
   unassigned-property triple for label n or as an attribute installed on
   the node labelled n. *)
C32_IncomingRequestRecordsWorkload ==
    (exec.n > 0 /\ exec.hook = "on_incoming_requests" /\ Ferried(exec.out[1]) # << >>) =>
        /\ RecordsWorkload(Ferried(exec.out[1])[1], exec.whoami)
        /\ StoredFor(Post, X.uid) # << >>
        /\ RecordsWorkload(StoredFor(Post, X.uid)[1], exec.whoami)


(* C33: what the plugin wrapper's tick produced is paired with the
   destination read from the dest header of each message: a node with a
   filter emits every message the egress filter returned, in order, each to
   the destination its dest header names after filtering. *)
C33_EmittedToDestHeader ==
    node.plugin =>
        /\ \A i \in 1..Len(emitted) :
               /\ contains_key(emitted[i].rpc.headers, "dest")
               /\ emitted[i].destination = emitted[i].rpc.headers["dest"]
        /\ (lastOp.kind = "tick" /\ ~lastOp.panic) =>
               /\ Len(lastOp.out) >= lastOp.deq + lastOp.gen
               /\ \A i \in 1..lastOp.deq :
                      \E j \in 1..Len(lastOp.out) : lastOp.out[j].rpc = lastOp.pre[i].rpc

\* one tick emitted a response to its neighbor and the storage message the
\* filter made for it to storage
C33_Witness ==
    /\ node.plugin /\ lastOp.kind = "tick" /\ ~lastOp.panic
    /\ Len(lastOp.out) = 2
    /\ lastOp.out[1].destination = "reviews-v1"
    /\ lastOp.out[2].destination = StorageId
    /\ lastOp.out[2].rpc.uid # lastOp.out[1].rpc.uid


(* C34: merge only reads the filter state: on_outgoing_requests and
   on_outgoing_responses leave envoy_shared_data unchanged, no entry added,
   removed or modified; only the store of on_incoming_requests and
   on_incoming_responses writes it; no hook removes an entry, so the set of
   uids it holds never shrinks. *)
C34_MergeReadsOnly ==
    exec.n > 0 =>
        /\ Merged => Post.envoy_shared_data = Pre.envoy_shared_data
        /\ Post.envoy_shared_data # Pre.envoy_shared_data => exec.hook \in Stores
        /\ DOMAIN Pre.envoy_shared_data \subseteq DOMAIN Post.envoy_shared_data

\* a response left a filter that held stored data for it, and a storage
\* message went with it
C34_Witness ==
    /\ Merged /\ exec.hook = "on_outgoing_responses" /\ ~exec.panic
    /\ StoredFor(Pre, X.uid) # << >>
    /\ Len(exec.out) = 2


\* on_incoming_responses stored a message whose ferried_data header does not decode
UndecodableStore ==
    /\ exec.n > 0 /\ exec.hook = "on_incoming_responses"
    /\ contains_key(X.headers, "ferried_data")
    /\ X.headers["ferried_data"] = Undecodable

(* C35: a store whose ferried_data header cannot be decoded leaves
   envoy_shared_data unchanged, also when it is the first store for that
   uid, so a later well-formed message with the same uid is still stored and
   merged normally: after its store the filter holds decodable data for the
   uid. *)
C35_UndecodableStoreLeavesState ==
    /\ UndecodableStore => Post.envoy_shared_data = Pre.envoy_shared_data
    /\ (exec.n > 0 /\ exec.hook = "on_incoming_responses" /\ Ferried(X) # << >>)
           => StoredFor(Post, X.uid) # << >>


(* C36: a node's plugin wrapper holds no buffered message before and after
   every Node.recv and every Node.tick, so no sequence of node operations,
   including ticks that dequeue or generate several messages, triggers the
   wrapper's Overwrite failure: every message handed to the wrapper was
   executed (a recv that fails runs no execute; a tick runs one execute per
   message it dequeued or generated). *)
C36_WrapperEmptyBetweenOps ==
    /\ ~panicked => node.stored_rpc = << >>
    /\ (node.plugin /\ lastOp.kind = "recv" /\ lastOp.panic) => lastOp.execs = 1
    /\ (node.plugin /\ lastOp.kind = "tick") => lastOp.execs = lastOp.deq + lastOp.gen

\* a tick of a node with a filter passed two messages through the wrapper
C36_Witness ==
    /\ node.plugin /\ lastOp.kind = "tick" /\ ~lastOp.panic
    /\ lastOp.deq + lastOp.gen = 2 /\ lastOp.deq >= 1
    /\ node.stored_rpc = << >>


\* the neighbor the generator seeded with the node's seed selects
RandomNeighbor == node.neighbors[rngTable[node.seed][Len(node.neighbors)] + 1]
\* the entries the last operation routed at random: the received message
\* when it came without a dest header, the messages a tick generated
RandomlyRouted ==
    IF lastOp.kind = "recv" /\ ~contains_key(lastOp.in[1].headers, "dest")
    THEN {e \in Range(lastOp.added) : e.rpc.uid = lastOp.in[1].uid}
    ELSE IF lastOp.kind = "tick"
    THEN {e \in Range(lastOp.out) : e.rpc.data = to_string(lastOp.tick)}
    ELSE {}

(* C37: random routing is a function of the node's seed and neighbor list
   only: the generator is re-created from the seed on every routing call, so
   every message without a dest header that the node routes while its
   neighbor list is unchanged goes to the same single neighbor, the one
   the seed selects, whatever was routed before; runs with the same seed
   and neighbors therefore route identically. *)
C37_RandomRouteFixed ==
    \A e \in RandomlyRouted :
        /\ e.destination = RandomNeighbor
        /\ e.rpc.headers["dest"] = RandomNeighbor

\* one tick of a node with two neighbors generated two messages, and both
\* went to the second neighbor
C37_Witness ==
    /\ Len(node.neighbors) = 2 /\ lastOp.kind = "tick"
    /\ Cardinality(RandomlyRouted) = 2
    /\ \A e \in RandomlyRouted : e.destination = node.neighbors[2]


(***************************************************************************)
(* A node that is ticked at every simulation step: the simulator's loop    *)
(* calls tick on every element at every step                               *)
(* (Simulator::tick), so a tick is always taken again.  The node has       *)
(* egress_rate >= 1.  Ticks of a node whose queue is empty are counted     *)
(* up to MaxTicks, and such a tick generates only while uids are left; a   *)
(* tick of a node with a non-empty queue is always possible.               *)
(***************************************************************************)
LiveInit == Init /\ node.egress_rate >= 1

LiveTickEnabled ==
    /\ ~panicked
    /\ node.queue = << >> =>
           /\ now < FirstTick + MaxTicks
           /\ WillGenerate(node) => COUNTER < MaxUid

LiveTick ==
    /\ LiveTickEnabled
    /\ \E orcs \in [1..MaxRate -> OraclesOf(node)] :
           LET t == now
               st == Node_tick(node, t, COUNTER, orcs)
           IN  /\ node' = st.node
               /\ now' = now + 1
               /\ COUNTER' = st.counter
               /\ panicked' = st.panic
               /\ emitted' = emitted \o st.ret
               /\ lastOp' = [NoOp EXCEPT !.kind = "tick", !.pre = node.queue,
                                         !.tick = t, !.out = st.ret,
                                         !.panic = st.panic, !.execs = st.execs,
                                         !.gen = st.gen, !.deq = st.deq]
    /\ UNCHANGED <<rngTable, routable, accepted>>
    /\ UNCHANGED simVars
    /\ UNCHANGED filterVars

LiveNext == AddConnection \/ Recv \/ LiveTick

\* LiveTick is the only action that changes now, it always adds one, and
\* Node_tick is total, so LiveTick is enabled exactly when its guard holds:
\* weak fairness of LiveTick is weak fairness of Ticking
Ticking == LiveTickEnabled /\ now' = now + 1

LiveSpec == LiveInit /\ [][LiveNext]_vars /\ WF_now(Ticking)

Position(q, uid) ==
    IF \E i \in 1..Len(q) : q[i].rpc.uid = uid
    THEN CHOOSE i \in 1..Len(q) : q[i].rpc.uid = uid
    ELSE 0
InQueue(uid) == Position(node.queue, uid) > 0
\* ceil(p / egress_rate)
TicksToLeave(p, egress_rate) == (p + egress_rate - 1) \div egress_rate
\* a tick that returned
Ticked == now' = now + 1 /\ ~panicked'

(* C38: a node with egress_rate >= 1 that is ticked at every simulation
   step dequeues every message accepted into its queue: a message at queue
   position p (from 1) at the start of a tick has left the queue after at
   most ceil(p / egress_rate) ticks (each tick lowers that number by one and
   the message is gone when it reaches zero), and no accepted message stays
   queued forever while the node is ticked (a panic ends the run). *)
C38_EventuallyDequeued ==
    /\ [][Ticked =>
            \A uid \in 0..MaxUid :
                InQueue(uid) =>
                    TicksToLeave(Position(node.queue', uid), node.egress_rate)
                        = TicksToLeave(Position(node.queue, uid), node.egress_rate) - 1]_vars
    /\ \A uid \in 0..MaxUid : InQueue(uid) ~> (~InQueue(uid) \/ panicked)

\* two ticks at egress_rate 1 emptied a queue of two accepted messages
C38_Witness ==
    /\ node.egress_rate = 1 /\ lastOp.kind = "tick" /\ ~panicked
    /\ Len(accepted) = 2 /\ node.queue = << >>
    /\ Len(lastOp.pre) = 1 /\ lastOp.pre[1] = accepted[2]
    /\ now = FirstTick + 2


(***************************************************************************)
(* A node that receives messages built with Rpc::new_with_src_dest, from   *)
(* any source to any service.  applied records the constructor call.       *)
(***************************************************************************)
RecvBuilt ==
    /\ ~panicked
    /\ COUNTER < MaxUid
    /\ \E src \in Services, dst \in NeighborIds \cup {NodeId}, orc \in OraclesOf(node) :
           LET b == Rpc_new_with_src_dest("0", src, dst, COUNTER)
               r == Node_recv(node, b.rpc, b.counter, orc)
           IN  /\ node' = r.node
               /\ COUNTER' = r.counter
               /\ panicked' = r.panic
               /\ accepted' = accepted \o r.added
               /\ routable' = IF route_rpc(node, b.rpc) # << >>
                               THEN Append(routable, b.rpc.uid) ELSE routable
               /\ lastOp' = [NoOp EXCEPT !.kind = "recv", !.pre = node.queue,
                                         !.in = <<b.rpc>>, !.panic = r.panic,
                                         !.execs = r.execs, !.added = r.added]
               /\ applied' = [fn |-> "new_with_src_dest", in |-> <<"0", src, dst>>,
                              out |-> <<b.rpc>>, panic |-> FALSE]
    /\ UNCHANGED <<rngTable, now, emitted>>
    /\ UNCHANGED simVars
    /\ UNCHANGED <<filters, exec>>

DestNext == AddConnection \/ RecvBuilt \/ Tick

DestSpec == Init /\ [][DestNext]_vars

(* C39: a message built with Rpc::new_with_src_dest(data, src, dst) carries
   src and dst as its src and dest routing headers, so a node that has dst
   among its neighbors routes the message to dst and not to a randomly
   chosen neighbor. *)
C39_SrcDestRoutesToDst ==
    (applied.fn = "new_with_src_dest" /\ lastOp.kind = "recv") =>
        /\ contains_key(applied.out[1].headers, "src")
        /\ applied.out[1].headers["src"] = Arg(2)
        /\ contains_key(applied.out[1].headers, "dest")
        /\ applied.out[1].headers["dest"] = Arg(3)
        /\ ((\E i \in 1..Len(node.neighbors) : node.neighbors[i] = Arg(3))
               /\ lastOp.added # << >>)
              => lastOp.added[1].destination = Arg(3)


(***************************************************************************)
(* A Reviews node: a wrapper around a core node with generation_rate 0 and *)
(* seed 0.  recv is the core node's recv; no connection is added.  calls   *)
(* logs the recv calls.                                                    *)
(***************************************************************************)
ReviewsId == "reviews-v1"

Reviews_new(id, capacity, egress_rate, plugin) ==
    Node_new(id, capacity, egress_rate, 0, plugin, 0)

Reviews_recv(n, rpc, counter, orc) == Node_recv(n, rpc, counter, orc)

ReviewsInit ==
    /\ \E c \in 1..MaxCap, e \in 0..MaxRate, p \in BOOLEAN :
           node = Reviews_new(ReviewsId, c, e, p)
    /\ COUNTER = 0
    /\ rngTable \in {t \in RngTables : t[0] = [len \in 1..MaxNeighbors |-> 0]}
    /\ panicked = FALSE
    /\ now = FirstTick
    /\ lastOp = NoOp
    /\ routable = << >>
    /\ accepted = << >>
    /\ emitted = << >>
    /\ simulator = Simulator_new
    /\ simTick = 0
    /\ calls = << >>
    /\ NoFilters

ReviewsRecv ==
    /\ ~panicked
    /\ COUNTER <= MaxUid
    /\ \E h \in InHeaders(node), orc \in OraclesOf(node) :
           LET rpc == [data |-> "0", uid |-> COUNTER, headers |-> h]
               r == Reviews_recv(node, rpc, COUNTER + 1, orc)
           IN  /\ node' = r.node
               /\ COUNTER' = r.counter
               /\ panicked' = r.panic
               /\ accepted' = accepted \o r.added
               /\ routable' = IF route_rpc(node, rpc) # << >>
                               THEN Append(routable, rpc.uid) ELSE routable
               /\ lastOp' = [NoOp EXCEPT !.kind = "recv", !.pre = node.queue,
                                         !.in = <<rpc>>, !.panic = r.panic,
                                         !.execs = r.execs, !.added = r.added]
               /\ calls' = Append(calls, RecvCall(node.id, now,
                                                  [rpc |-> rpc, sender |-> "0"],
                                                  IsFull(node)))
    /\ UNCHANGED <<rngTable, now, emitted>>
    /\ UNCHANGED <<simulator, simTick>>
    /\ UNCHANGED filterVars

\* node.core_node.tick
ReviewsCoreTick == Tick

ReviewsNext == ReviewsRecv \/ ReviewsCoreTick

ReviewsSpec == ReviewsInit /\ [][ReviewsNext]_vars

(* C40: a Reviews node retains received messages up to its capacity even
   when no connection has been added to it: created by Reviews::new with
   capacity c, after k recv calls and no tick its queue holds min(k, c)
   messages, and a following tick of its core node with egress_rate 1
   leaves exactly one message fewer. *)
C40_ReviewsRetainsUpToCapacity ==
    /\ (now = FirstTick /\ ~panicked) =>
           Len(node.queue) = Min(Len(calls), node.capacity)
    /\ (now = FirstTick + 1 /\ lastOp.kind = "tick" /\ ~panicked
            /\ node.egress_rate = 1 /\ Len(calls) >= 1) =>
           Len(node.queue) = Min(Len(calls), node.capacity) - 1

====
